---- MODULE Spec2Model ----
(***************************************************************************)
(* State-machine model of the two contracts of the RWA tokenization        *)
(* platform: RWAToken (the asset ledger) and PledgeManager (the pledge     *)
(* registry), together with the stable asset (MockUSDT) they settle in.    *)
(* Every external call of a contract is one atomic step: a call that       *)
(* reverts leaves no trace, so an action is enabled exactly when its       *)
(* ...Revert operator returns NoRevert.                                    *)
(***************************************************************************)
EXTENDS Integers, Sequences, FiniteSets, TLC

(***************************************************************************)
(* uint256 arithmetic.  A uint256 is a little-endian sequence of limbs in  *)
(* base 10^6 without leading zero limbs (<<>> is 0), so that 1e18 and 1e6  *)
(* are exact shifts and the products below stay inside TLC's integers.     *)
(***************************************************************************)
Base == 10 ^ 6

RECURSIVE Norm(_)
Norm(a) == IF a = <<>> THEN <<>>
           ELSE IF a[Len(a)] = 0 THEN Norm(SubSeq(a, 1, Len(a) - 1))
           ELSE a

Rest(a) == IF a = <<>> THEN <<>> ELSE Tail(a)
Low(a) == IF a = <<>> THEN 0 ELSE Head(a)

\* n as a uint256, for 0 <= n < 2^31
U(n) == Norm(<<n % Base, n \div Base>>)

RECURSIVE AddCarry(_, _, _)
AddCarry(a, b, c) ==
    IF a = <<>> /\ b = <<>> THEN (IF c = 0 THEN <<>> ELSE <<c>>)
    ELSE LET x == Low(a) + Low(b) + c
         IN  <<x % Base>> \o AddCarry(Rest(a), Rest(b), x \div Base)

Add(a, b) == AddCarry(a, b, 0)

RECURSIVE SubBorrow(_, _, _)
SubBorrow(a, b, c) ==
    IF a = <<>> THEN <<>>
    ELSE LET x == Low(a) - Low(b) - c
         IN  <<IF x < 0 THEN x + Base ELSE x>>
                 \o SubBorrow(Rest(a), Rest(b), IF x < 0 THEN 1 ELSE 0)

RECURSIVE LtFrom(_, _, _)
LtFrom(a, b, i) == IF i = 0 THEN FALSE
                   ELSE IF a[i] # b[i] THEN a[i] < b[i]
                   ELSE LtFrom(a, b, i - 1)

Lt(a, b) == IF Len(a) # Len(b) THEN Len(a) < Len(b) ELSE LtFrom(a, b, Len(a))
Leq(a, b) == ~Lt(b, a)

\* a - b, for b <= a (a checked subtraction reverts otherwise)
Sub(a, b) == Norm(SubBorrow(a, b, 0))

RECURSIVE MulCarry(_, _, _)
MulCarry(a, k, c) ==
    IF a = <<>> THEN (IF c = 0 THEN <<>> ELSE <<c>>)
    ELSE LET x == Head(a) * k + c
         IN  <<x % Base>> \o MulCarry(Tail(a), k, x \div Base)

\* a * k for a small factor k (a percentage)
Mul(a, k) == Norm(MulCarry(a, k, 0))

RECURSIVE DivFrom(_, _, _, _)
DivFrom(a, k, i, r) ==
    IF i = 0 THEN <<>>
    ELSE LET x == r * Base + a[i]
         IN  DivFrom(a, k, i - 1, x % k) \o <<x \div k>>

\* floor(a / k) for a small divisor k
Div(a, k) == Norm(DivFrom(a, k, Len(a), 0))

\* a * 1e6 and floor(a / 1e18)
MulE6(a) == IF a = <<>> THEN <<>> ELSE <<0>> \o a
DivE18(a) == IF Len(a) <= 3 THEN <<>> ELSE SubSeq(a, 4, Len(a))

\* n * 1e18 and n * 1e6 for a small n
E18(n) == IF n = 0 THEN <<>> ELSE <<0, 0, 0>> \o U(n)
E6(n) == MulE6(U(n))

\* type(uint256).max = 2^256 - 1
MaxUint256 == <<639935, 913129, 584007, 39457, 640564, 984665, 853269,
                687907, 985008, 423570, 316195, 89237, 115792>>

\* whether a value fits a uint256 (checked arithmetic reverts when it does not)
Fits(a) == Leq(a, MaxUint256)

(***************************************************************************)
(* Identities.  The deployer is the admin of both contracts; the registry  *)
(* is the PledgeManager contract's own address.                            *)
(***************************************************************************)
Admin == "admin"
Registry == "registry"
ZeroAddress == "zero"
Users == {"alice", "bob"}
Accounts == {Admin, Registry} \cup Users
\* the externally owned accounts, which send the transactions
Senders == {Admin} \cup Users

DEFAULT_ADMIN_ROLE == "DEFAULT_ADMIN_ROLE"
MINTER_ROLE == "MINTER_ROLE"
PAUSER_ROLE == "PAUSER_ROLE"
PLEDGE_MANAGER_ROLE == "PLEDGE_MANAGER_ROLE"
OPERATOR_ROLE == "OPERATOR_ROLE"
FINANCE_ROLE == "FINANCE_ROLE"
TokenRoles == {DEFAULT_ADMIN_ROLE, MINTER_ROLE, PAUSER_ROLE, PLEDGE_MANAGER_ROLE}
ManagerRoles == {DEFAULT_ADMIN_ROLE, OPERATOR_ROLE, FINANCE_ROLE}

PENDING == "PENDING"
ACTIVE == "ACTIVE"
REPAID == "REPAID"
DEFAULTED == "DEFAULTED"
RELEASED == "RELEASED"

NoRevert == "ok"

(***************************************************************************)
(* Bounds of the model and the inputs the transactions draw from.          *)
(***************************************************************************)
\* steps (transactions and new blocks) per behaviour
MaxSteps == 4

AgreementIds == {"A1", "A2"}
AssetIds == {"X1", "X2"}
PurchaseIds == {"P1", "P2"}
AssetTypes == {"real_estate"}
Descriptions == {"desc"}
DocumentHashes == {"Qm"}
\* the accounts that pledge assets and buy tokens, and the account that is
\* granted roles after deployment (the backend signer)
Clients == {"alice"}
Investors == {Admin, "alice"}
Grantees == {"bob"}
\* original values: 3 base units and 100,000 * 1e18
OriginalValues == {U(3), E18(100000)}
\* 842,016,806,723 base units, an original value whose clientPayment at the
\* deployed rates (70 and 15) is 501,000 * 1e6: what the registry holds after
\* its funding with 500,000 * 1e6 and a sale of 1,000 tokens
LargePayoutValue == <<806723, 842016>>
\* the original values createPledge is called with for an agreement
ValuesFor(agreementId) == OriginalValues \cup (IF agreementId = "A2" THEN {LargePayoutValue} ELSE {})
TokenAmounts == {U(1), U(1000)}
RedeemAmounts == {U(0), U(1), U(70000)}
RepaymentAmounts == {U(0), E6(1000)}
WithdrawAmounts == {U(0), U(150000), E6(150)}
ApproveAmounts == {E6(1000)}
NewRates == {50}
NewSpreads == {50}
\* the (agreementId, assetId) pairs createPledge is called with
PledgeInputs == {<<"A1", "X1">>, <<"A2", "X2">>}

\* the arguments a call can also be made with, and is rejected for
AnyAgreementId == AgreementIds \cup {""}
AnyAssetId == AssetIds \cup {""}
AnyAccount == Accounts \cup {ZeroAddress}
AnyOriginalValue == OriginalValues \cup {U(0), MaxUint256}
AnyTokenAmount == TokenAmounts \cup {U(0)}
AnyRate == NewRates \cup {0, 100, 101}
AnySpread == NewSpreads \cup {0, 51}

VARIABLES
    \* RWAToken
    assets,              \* tokenId -> AssetInfo, as a sequence (ids from 1)
    assetIdToTokenId,    \* assetId -> tokenId, 0 when absent
    currentTokenId,      \* _currentTokenId
    totalPledgedValue,
    discountRate,
    tokenBalances,       \* ERC20 _balances of RWAToken
    tokenTotalSupply,    \* ERC20 _totalSupply of RWAToken
    tokenPaused,
    tokenRoles,          \* role -> the accounts holding it
    tokensRedeemed,      \* tokenId -> sum of tokensRedeemed of its AssetReleased events
    \* PledgeManager
    pledgeAgreements,    \* agreementId -> PledgeAgreement
    assetInvestors,      \* agreementId -> sequence of InvestorPurchase
    clientPledges,       \* client -> sequence of agreementId
    investorPurchases,   \* investor -> sequence of agreementId
    totalClientPayments,
    totalInvestorPayments,
    platformRevenue,
    revenueAccrued,      \* sum of the revenue booked by purchases so far
    revenueWithdrawn,    \* sum of the amounts paid out by withdrawRevenue so far
    spreadPercentage,
    paused,
    roles,               \* role -> the accounts holding it
    \* MockUSDT
    usdtBalances,
    usdtAllowances,      \* owner -> allowance given to the registry
    \* environment
    blockTimestamp,
    steps                \* transactions mined and blocks opened so far

tokenVars == <<assets, assetIdToTokenId, currentTokenId, totalPledgedValue,
               tokenBalances, tokenTotalSupply, tokensRedeemed>>
tokenAdminVars == <<discountRate, tokenPaused, tokenRoles>>
managerVars == <<pledgeAgreements, assetInvestors, clientPledges, investorPurchases,
                 totalClientPayments, totalInvestorPayments, platformRevenue,
                 revenueAccrued, revenueWithdrawn>>
managerAdminVars == <<spreadPercentage, paused, roles>>
usdtVars == <<usdtBalances, usdtAllowances>>
vars == <<tokenVars, tokenAdminVars, managerVars, managerAdminVars, usdtVars,
          blockTimestamp, steps>>

\* the empty slot of the pledgeAgreements mapping (all fields zero)
NoAgreement == [agreementId |-> "", client |-> ZeroAddress, assetId |-> "",
                assetType |-> "", description |-> "", originalValue |-> U(0),
                discountedValue |-> U(0), tokensIssued |-> U(0),
                clientPayment |-> U(0), timestamp |-> 0, status |-> PENDING,
                documentHash |-> ""]

(***************************************************************************)
(* The state after deployment on a test network: both constructors have    *)
(* run with the deployer as admin, the deploy script has granted the       *)
(* registry its roles on the ledger and funded it with 500,000 USDT out of *)
(* the 2,000,000 minted to the deployer.                                   *)
(***************************************************************************)
Deployed ==
    /\ assets = <<>>
    /\ assetIdToTokenId = [a \in AnyAssetId |-> 0]
    /\ currentTokenId = 1
    /\ totalPledgedValue = U(0)
    /\ discountRate = 70
    /\ tokenBalances = [a \in Accounts |-> U(0)]
    /\ tokenTotalSupply = U(0)
    /\ tokenPaused = FALSE
    /\ tokenRoles = [r \in TokenRoles |->
                        IF r \in {PLEDGE_MANAGER_ROLE, MINTER_ROLE}
                        THEN {Admin, Registry} ELSE {Admin}]
    /\ tokensRedeemed = <<>>
    /\ pledgeAgreements = [a \in AnyAgreementId |-> NoAgreement]
    /\ assetInvestors = [a \in AnyAgreementId |-> <<>>]
    /\ clientPledges = [a \in Accounts |-> <<>>]
    /\ investorPurchases = [a \in Accounts |-> <<>>]
    /\ totalClientPayments = U(0)
    /\ totalInvestorPayments = U(0)
    /\ platformRevenue = U(0)
    /\ revenueAccrued = U(0)
    /\ revenueWithdrawn = U(0)
    /\ spreadPercentage = 15
    /\ paused = FALSE
    /\ roles = [r \in ManagerRoles |-> {Admin}]
    /\ usdtBalances = [a \in Accounts |->
                          IF a = Admin THEN E6(1500000)
                          ELSE IF a = Registry THEN E6(500000) ELSE U(0)]
    /\ usdtAllowances = [a \in Accounts |-> U(0)]

Init ==
    /\ Deployed
    /\ blockTimestamp = 1
    /\ steps = 0

\* the same deployment on a chain whose clock still reads 0
InitAtEpoch ==
    /\ Deployed
    /\ blockTimestamp = 0
    /\ steps = 0

(***************************************************************************)
(* Shared pieces: role checks, ERC20 balance moves, the mined-transaction  *)
(* bookkeeping.                                                            *)
(***************************************************************************)
MissingRole == "AccessControl: account is missing role"
IsPaused == "Pausable: paused"
NotPaused == "Pausable: not paused"
Overflow == "Panic: arithmetic overflow"

\* ERC20 _transfer on a balance map: amount moves from one account to another
Moved(bal, from, to, amount) ==
    LET debited == [bal EXCEPT ![from] = Sub(@, amount)]
    IN  [debited EXCEPT ![to] = Add(@, amount)]

\* ERC20 _mint and _burn on a balance map
Minted(bal, account, amount) == [bal EXCEPT ![account] = Add(@, amount)]
\* a burn that forgets to debit the holder
BurnedNothing(bal, account, amount) == bal
Burned(bal, account, amount) == [bal EXCEPT ![account] = Sub(@, amount)]

\* one more transaction is mined in the current block
Mined == /\ steps < MaxSteps
         /\ steps' = steps + 1
         /\ UNCHANGED blockTimestamp

(***************************************************************************)
(* RWAToken                                                                *)
(***************************************************************************)
balanceOf(account) == IF account = ZeroAddress THEN U(0) ELSE tokenBalances[account]

\* the discount taken by dividing first: (originalValue / 100) * discountRate
PledgedValueDivFirst(originalValue, rate) == Mul(Div(originalValue, 100), rate)

\* pledgedValue = (originalValue * discountRate) / 100
PledgedValue(originalValue, rate) == Div(Mul(originalValue, rate), 100)

\* the token amount taken as the pledged value itself, not divided by 1e18
TokensForUndivided(pledgedValue) == pledgedValue

\* tokensToIssue = pledgedValue / 1e18, also releaseAsset's expectedTokens
TokensFor(pledgedValue) == DivE18(pledgedValue)

\* pledgeAsset without its require(assetIdToTokenId[assetId] == 0)
PledgeAssetRevertNoLookup(sender, assetId, originalValue, pledger) ==
    IF sender \notin tokenRoles[PLEDGE_MANAGER_ROLE] THEN MissingRole
    ELSE IF tokenPaused THEN IsPaused
    ELSE IF assetId = "" THEN "Asset ID cannot be empty"
    ELSE IF pledger = ZeroAddress THEN "Invalid pledger address"
    ELSE IF originalValue = U(0) THEN "Asset value must be greater than 0"
    ELSE IF ~Fits(Mul(originalValue, discountRate)) THEN Overflow
    ELSE IF ~Fits(Add(totalPledgedValue, PledgedValue(originalValue, discountRate)))
         THEN Overflow
    ELSE NoRevert

\* pledgeAsset without its onlyRole(PLEDGE_MANAGER_ROLE) modifier
PledgeAssetRevertNoRole(sender, assetId, originalValue, pledger) ==
    IF tokenPaused THEN IsPaused
    ELSE IF assetId = "" THEN "Asset ID cannot be empty"
    ELSE IF assetIdToTokenId[assetId] # 0 THEN "Asset already pledged"
    ELSE IF pledger = ZeroAddress THEN "Invalid pledger address"
    ELSE IF originalValue = U(0) THEN "Asset value must be greater than 0"
    ELSE IF ~Fits(Mul(originalValue, discountRate)) THEN Overflow
    ELSE NoRevert

PledgeAssetRevert(sender, assetId, originalValue, pledger) ==
    IF sender \notin tokenRoles[PLEDGE_MANAGER_ROLE] THEN MissingRole
    ELSE IF tokenPaused THEN IsPaused
    ELSE IF assetId = "" THEN "Asset ID cannot be empty"
    ELSE IF assetIdToTokenId[assetId] # 0 THEN "Asset already pledged"
    ELSE IF pledger = ZeroAddress THEN "Invalid pledger address"
    ELSE IF originalValue = U(0) THEN "Asset value must be greater than 0"
    ELSE IF ~Fits(Mul(originalValue, discountRate)) THEN Overflow
    ELSE IF ~Fits(Add(totalPledgedValue, PledgedValue(originalValue, discountRate)))
         THEN Overflow
    ELSE NoRevert

\* the body of pledgeAsset: the record, the reverse lookup, the accumulator, the mint
PledgeAssetEffect(assetId, assetType, description, originalValue, pledger) ==
    LET tokenId == currentTokenId
        pledgedValue == PledgedValue(originalValue, discountRate)
        tokensToIssue == TokensFor(pledgedValue)
    IN  /\ currentTokenId' = currentTokenId + 1
        /\ assets' = Append(assets,
               [assetType |-> assetType, description |-> description,
                originalValue |-> originalValue, pledgedValue |-> pledgedValue,
                assetId |-> assetId, pledger |-> pledger,
                pledgeTimestamp |-> blockTimestamp, isActive |-> TRUE])
        /\ assetIdToTokenId' = [assetIdToTokenId EXCEPT ![assetId] = tokenId]
        /\ totalPledgedValue' = Add(totalPledgedValue, pledgedValue)
        /\ tokenBalances' = Minted(tokenBalances, pledger, tokensToIssue)
        /\ tokenTotalSupply' = Add(tokenTotalSupply, tokensToIssue)
        /\ tokensRedeemed' = Append(tokensRedeemed, U(0))

PledgeAsset(sender, assetId, assetType, description, originalValue, pledger) ==
    /\ PledgeAssetRevert(sender, assetId, originalValue, pledger) = NoRevert
    /\ PledgeAssetEffect(assetId, assetType, description, originalValue, pledger)
    /\ Mined
    /\ UNCHANGED <<tokenAdminVars, managerVars, managerAdminVars, usdtVars>>

\* releaseAsset without its whenNotPaused modifier
ReleaseAssetRevertNoPause(sender, assetId, tokenHolder, tokensToRedeem) ==
    LET tokenId == assetIdToTokenId[assetId]
    IN  IF sender \notin tokenRoles[PLEDGE_MANAGER_ROLE] THEN MissingRole
        ELSE IF tokenId = 0 THEN "Asset not found"
        ELSE IF ~assets[tokenId].isActive THEN "Asset is not active"
        ELSE IF Lt(balanceOf(tokenHolder), tokensToRedeem)
             THEN "Insufficient token balance"
        ELSE IF tokenHolder = ZeroAddress THEN "ERC20: burn from the zero address"
        ELSE IF /\ Leq(TokensFor(assets[tokenId].pledgedValue), tokensToRedeem)
                /\ Lt(totalPledgedValue, assets[tokenId].pledgedValue)
             THEN Overflow
        ELSE NoRevert

\* releaseAsset without its require on the holder's token balance
ReleaseAssetRevertNoBalance(sender, assetId, tokenHolder, tokensToRedeem) ==
    LET tokenId == assetIdToTokenId[assetId]
    IN  IF sender \notin tokenRoles[PLEDGE_MANAGER_ROLE] THEN MissingRole
        ELSE IF tokenPaused THEN IsPaused
        ELSE IF tokenId = 0 THEN "Asset not found"
        ELSE IF ~assets[tokenId].isActive THEN "Asset is not active"
        ELSE IF tokenHolder = ZeroAddress THEN "ERC20: burn from the zero address"
        ELSE IF /\ Leq(TokensFor(assets[tokenId].pledgedValue), tokensToRedeem)
                /\ Lt(totalPledgedValue, assets[tokenId].pledgedValue)
             THEN Overflow
        ELSE NoRevert

\* releaseAsset without its require(assets[tokenId].isActive)
ReleaseAssetRevertNoActive(sender, assetId, tokenHolder, tokensToRedeem) ==
    LET tokenId == assetIdToTokenId[assetId]
    IN  IF sender \notin tokenRoles[PLEDGE_MANAGER_ROLE] THEN MissingRole
        ELSE IF tokenPaused THEN IsPaused
        ELSE IF tokenId = 0 THEN "Asset not found"
        ELSE IF Lt(balanceOf(tokenHolder), tokensToRedeem)
             THEN "Insufficient token balance"
        ELSE IF tokenHolder = ZeroAddress THEN "ERC20: burn from the zero address"
        ELSE IF /\ Leq(TokensFor(assets[tokenId].pledgedValue), tokensToRedeem)
                /\ Lt(totalPledgedValue, assets[tokenId].pledgedValue)
             THEN Overflow
        ELSE NoRevert

ReleaseAssetRevert(sender, assetId, tokenHolder, tokensToRedeem) ==
    LET tokenId == assetIdToTokenId[assetId]
    IN  IF sender \notin tokenRoles[PLEDGE_MANAGER_ROLE] THEN MissingRole
        ELSE IF tokenPaused THEN IsPaused
        ELSE IF tokenId = 0 THEN "Asset not found"
        ELSE IF ~assets[tokenId].isActive THEN "Asset is not active"
        ELSE IF Lt(balanceOf(tokenHolder), tokensToRedeem)
             THEN "Insufficient token balance"
        ELSE IF tokenHolder = ZeroAddress THEN "ERC20: burn from the zero address"
        ELSE IF /\ Leq(TokensFor(assets[tokenId].pledgedValue), tokensToRedeem)
                /\ Lt(totalPledgedValue, assets[tokenId].pledgedValue)
             THEN Overflow
        ELSE NoRevert

\* every release taken to retire the asset, however little it redeems
RedeemsAny(tokensToRedeem, expectedTokens) == TRUE

\* any redemption of at least one token retires the asset
RedeemsSome(tokensToRedeem, expectedTokens) == tokensToRedeem # U(0)

\* whether a release of tokensToRedeem retires the asset
RedeemsAll(tokensToRedeem, expectedTokens) == Leq(expectedTokens, tokensToRedeem)

\* a release that retires the asset but leaves totalPledgedValue as it was
ReleaseAssetEffectKeepsTotal(assetId, tokenHolder, tokensToRedeem) ==
    LET tokenId == assetIdToTokenId[assetId]
        expectedTokens == TokensFor(assets[tokenId].pledgedValue)
        all == RedeemsAll(tokensToRedeem, expectedTokens)
    IN  /\ tokenBalances' = Burned(tokenBalances, tokenHolder, tokensToRedeem)
        /\ tokenTotalSupply' = Sub(tokenTotalSupply, tokensToRedeem)
        /\ assets' = IF all THEN [assets EXCEPT ![tokenId].isActive = FALSE] ELSE assets
        /\ totalPledgedValue' = totalPledgedValue
        /\ tokensRedeemed' = [tokensRedeemed EXCEPT ![tokenId] = Add(@, tokensToRedeem)]
        /\ UNCHANGED <<assetIdToTokenId, currentTokenId>>

\* the body of releaseAsset: the burn, then the asset retired on a full redemption
ReleaseAssetEffect(assetId, tokenHolder, tokensToRedeem) ==
    LET tokenId == assetIdToTokenId[assetId]
        expectedTokens == TokensFor(assets[tokenId].pledgedValue)
        all == RedeemsAll(tokensToRedeem, expectedTokens)
    IN  /\ tokenBalances' = Burned(tokenBalances, tokenHolder, tokensToRedeem)
        /\ tokenTotalSupply' = Sub(tokenTotalSupply, tokensToRedeem)
        /\ assets' = IF all THEN [assets EXCEPT ![tokenId].isActive = FALSE] ELSE assets
        /\ totalPledgedValue' = IF all
                                THEN Sub(totalPledgedValue, assets[tokenId].pledgedValue)
                                ELSE totalPledgedValue
        /\ tokensRedeemed' = [tokensRedeemed EXCEPT ![tokenId] = Add(@, tokensToRedeem)]
        /\ UNCHANGED <<assetIdToTokenId, currentTokenId>>

ReleaseAsset(sender, assetId, tokenHolder, tokensToRedeem) ==
    /\ ReleaseAssetRevert(sender, assetId, tokenHolder, tokensToRedeem) = NoRevert
    /\ ReleaseAssetEffect(assetId, tokenHolder, tokensToRedeem)
    /\ Mined
    /\ UNCHANGED <<tokenAdminVars, managerVars, managerAdminVars, usdtVars>>

\* setDiscountRate without its require on the range of newRate
SetDiscountRateRevertNoRange(sender, newRate) ==
    IF sender \notin tokenRoles[DEFAULT_ADMIN_ROLE] THEN MissingRole ELSE NoRevert

SetDiscountRateRevert(sender, newRate) ==
    IF sender \notin tokenRoles[DEFAULT_ADMIN_ROLE] THEN MissingRole
    ELSE IF ~(newRate > 0 /\ newRate <= 100) THEN "Invalid discount rate"
    ELSE NoRevert

SetDiscountRate(sender, newRate) ==
    /\ SetDiscountRateRevert(sender, newRate) = NoRevert
    /\ discountRate' = newRate
    /\ Mined
    /\ UNCHANGED <<tokenVars, tokenPaused, tokenRoles, managerVars, managerAdminVars,
                   usdtVars>>

TokenPauseRevert(sender) ==
    IF sender \notin tokenRoles[PAUSER_ROLE] THEN MissingRole
    ELSE IF tokenPaused THEN IsPaused
    ELSE NoRevert

TokenPause(sender) ==
    /\ TokenPauseRevert(sender) = NoRevert
    /\ tokenPaused' = TRUE
    /\ Mined
    /\ UNCHANGED <<tokenVars, discountRate, tokenRoles, managerVars, managerAdminVars,
                   usdtVars>>

TokenUnpauseRevert(sender) ==
    IF sender \notin tokenRoles[PAUSER_ROLE] THEN MissingRole
    ELSE IF ~tokenPaused THEN NotPaused
    ELSE NoRevert

TokenUnpause(sender) ==
    /\ TokenUnpauseRevert(sender) = NoRevert
    /\ tokenPaused' = FALSE
    /\ Mined
    /\ UNCHANGED <<tokenVars, discountRate, tokenRoles, managerVars, managerAdminVars,
                   usdtVars>>

\* ERC20 transfer of RWAToken, through the _beforeTokenTransfer pause hook
TokenTransferRevert(sender, to, amount) ==
    IF to = ZeroAddress THEN "ERC20: transfer to the zero address"
    ELSE IF tokenPaused THEN IsPaused
    ELSE IF Lt(balanceOf(sender), amount) THEN "ERC20: transfer amount exceeds balance"
    ELSE NoRevert

TokenTransfer(sender, to, amount) ==
    /\ TokenTransferRevert(sender, to, amount) = NoRevert
    /\ tokenBalances' = Moved(tokenBalances, sender, to, amount)
    /\ Mined
    /\ UNCHANGED <<assets, assetIdToTokenId, currentTokenId, totalPledgedValue,
                   tokenTotalSupply, tokensRedeemed, tokenAdminVars, managerVars,
                   managerAdminVars, usdtVars>>

\* AccessControl.grantRole / revokeRole of RWAToken (every role's admin is the default admin)
TokenGrantRoleRevert(sender, role, account) ==
    IF sender \notin tokenRoles[DEFAULT_ADMIN_ROLE] THEN MissingRole ELSE NoRevert

TokenGrantRole(sender, role, account) ==
    /\ TokenGrantRoleRevert(sender, role, account) = NoRevert
    /\ tokenRoles' = [tokenRoles EXCEPT ![role] = @ \cup {account}]
    /\ Mined
    /\ UNCHANGED <<tokenVars, discountRate, tokenPaused, managerVars, managerAdminVars,
                   usdtVars>>

TokenRevokeRole(sender, role, account) ==
    /\ TokenGrantRoleRevert(sender, role, account) = NoRevert
    /\ tokenRoles' = [tokenRoles EXCEPT ![role] = @ \ {account}]
    /\ Mined
    /\ UNCHANGED <<tokenVars, discountRate, tokenPaused, managerVars, managerAdminVars,
                   usdtVars>>

(***************************************************************************)
(* MockUSDT: the ERC20 calls the registry makes, and the calls its users   *)
(* make to fund and authorise a purchase or a repayment.                   *)
(***************************************************************************)
\* transferFrom(from, registry, amount) called by the registry
UsdtTransferFromRevert(from, amount) ==
    IF Lt(usdtAllowances[from], amount) THEN "ERC20: insufficient allowance"
    ELSE IF Lt(usdtBalances[from], amount) THEN "ERC20: transfer amount exceeds balance"
    ELSE NoRevert

\* transfer(to, amount) called by the registry
UsdtTransferRevert(to, amount) ==
    IF to = ZeroAddress THEN "ERC20: transfer to the zero address"
    ELSE IF Lt(usdtBalances[Registry], amount) THEN "ERC20: transfer amount exceeds balance"
    ELSE NoRevert

UsdtApprove(sender, amount) ==
    /\ usdtAllowances' = [usdtAllowances EXCEPT ![sender] = amount]
    /\ Mined
    /\ UNCHANGED <<tokenVars, tokenAdminVars, managerVars, managerAdminVars, usdtBalances>>

\* getTestUSDT mints 1,000 USDT to the caller
GetTestUSDT(sender) ==
    /\ usdtBalances' = [usdtBalances EXCEPT ![sender] = Add(@, E6(1000))]
    /\ Mined
    /\ UNCHANGED <<tokenVars, tokenAdminVars, managerVars, managerAdminVars, usdtAllowances>>

(***************************************************************************)
(* PledgeManager                                                           *)
(***************************************************************************)
\* the payment computed as the spread's share instead of the client's
ClientPaymentSpreadShare(discountedValue, spread) == Div(Mul(discountedValue, spread), 100)

\* clientPayment = (discountedValue * (100 - spreadPercentage)) / 100
ClientPayment(discountedValue, spread) == Div(Mul(discountedValue, 100 - spread), 100)

\* usdtRequired = tokenAmount * 1e6
UsdtRequired(tokenAmount) == MulE6(tokenAmount)

\* the revenue booked as the whole payment less the spread
RevenueShareComplement(usdtRequired, spread) == Div(Mul(usdtRequired, 100 - spread), 100)

\* the revenue booked for a purchase: (usdtRequired * spreadPercentage) / 100
RevenueShare(usdtRequired, spread) == Div(Mul(usdtRequired, spread), 100)

\* an existence test on the issued tokens instead of the timestamp
AgreementExistsByTokens(agreementId) == pledgeAgreements[agreementId].tokensIssued # U(0)

\* the existence test of createPledge's last require
AgreementExists(agreementId) == pledgeAgreements[agreementId].timestamp # 0

\* createPledge that goes on although the ledger's pledgeAsset has failed
CreatePledgeRevertIgnoresLedger(sender, agreementId, client, assetId, originalValue) ==
    IF sender \notin roles[OPERATOR_ROLE] THEN MissingRole
    ELSE IF paused THEN IsPaused
    ELSE IF agreementId = "" THEN "Agreement ID cannot be empty"
    ELSE IF client = ZeroAddress THEN "Invalid client address"
    ELSE IF originalValue = U(0) THEN "Asset value must be greater than 0"
    ELSE IF AgreementExists(agreementId) THEN "Agreement already exists"
    ELSE IF ~Fits(Mul(originalValue, discountRate)) THEN Overflow
    ELSE NoRevert

\* createPledge without its whenNotPaused modifier
CreatePledgeRevertNoPause(sender, agreementId, client, assetId, originalValue) ==
    IF sender \notin roles[OPERATOR_ROLE] THEN MissingRole
    ELSE IF agreementId = "" THEN "Agreement ID cannot be empty"
    ELSE IF client = ZeroAddress THEN "Invalid client address"
    ELSE IF originalValue = U(0) THEN "Asset value must be greater than 0"
    ELSE IF AgreementExists(agreementId) THEN "Agreement already exists"
    ELSE IF ~Fits(Mul(originalValue, discountRate)) THEN Overflow
    ELSE PledgeAssetRevert(Registry, assetId, originalValue, Registry)

CreatePledgeRevert(sender, agreementId, client, assetId, originalValue) ==
    IF sender \notin roles[OPERATOR_ROLE] THEN MissingRole
    ELSE IF paused THEN IsPaused
    ELSE IF agreementId = "" THEN "Agreement ID cannot be empty"
    ELSE IF client = ZeroAddress THEN "Invalid client address"
    ELSE IF originalValue = U(0) THEN "Asset value must be greater than 0"
    ELSE IF AgreementExists(agreementId) THEN "Agreement already exists"
    ELSE IF ~Fits(Mul(originalValue, discountRate)) THEN Overflow
    ELSE PledgeAssetRevert(Registry, assetId, originalValue, Registry)

CreatePledge(sender, agreementId, client, assetId, assetType, description, originalValue, documentHash) ==
    LET discountedValue == PledgedValue(originalValue, discountRate)
        clientPayment == ClientPayment(discountedValue, spreadPercentage)
    IN  /\ CreatePledgeRevert(sender, agreementId, client, assetId, originalValue)
               = NoRevert
        /\ pledgeAgreements' = [pledgeAgreements EXCEPT ![agreementId] =
               [agreementId |-> agreementId, client |-> client, assetId |-> assetId,
                assetType |-> assetType, description |-> description,
                originalValue |-> originalValue, discountedValue |-> discountedValue,
                tokensIssued |-> TokensFor(discountedValue),
                clientPayment |-> clientPayment, timestamp |-> blockTimestamp,
                status |-> ACTIVE, documentHash |-> documentHash]]
        /\ clientPledges' = [clientPledges EXCEPT ![client] = Append(@, agreementId)]
        /\ PledgeAssetEffect(assetId, assetType, description, originalValue, Registry)
        /\ Mined
        /\ UNCHANGED <<tokenAdminVars, assetInvestors, investorPurchases,
                       totalClientPayments, totalInvestorPayments, platformRevenue,
                       revenueAccrued, revenueWithdrawn, managerAdminVars, usdtVars>>

\* payClient without its require on the registry's USDT balance
PayClientRevertNoBalance(sender, agreementId) ==
    LET pledge == pledgeAgreements[agreementId]
    IN  IF sender \notin roles[FINANCE_ROLE] THEN MissingRole
        ELSE IF pledge.timestamp = 0 THEN "Pledge not found"
        ELSE IF pledge.status # ACTIVE THEN "Pledge not active"
        ELSE UsdtTransferRevert(pledge.client, pledge.clientPayment)

\* payClient without its onlyRole(FINANCE_ROLE) modifier
PayClientRevertNoRole(sender, agreementId) ==
    LET pledge == pledgeAgreements[agreementId]
    IN  IF pledge.timestamp = 0 THEN "Pledge not found"
        ELSE IF pledge.status # ACTIVE THEN "Pledge not active"
        ELSE IF Lt(usdtBalances[Registry], pledge.clientPayment)
             THEN "Insufficient USDT balance"
        ELSE UsdtTransferRevert(pledge.client, pledge.clientPayment)

PayClientRevert(sender, agreementId) ==
    LET pledge == pledgeAgreements[agreementId]
    IN  IF sender \notin roles[FINANCE_ROLE] THEN MissingRole
        ELSE IF pledge.timestamp = 0 THEN "Pledge not found"
        ELSE IF pledge.status # ACTIVE THEN "Pledge not active"
        ELSE IF Lt(usdtBalances[Registry], pledge.clientPayment)
             THEN "Insufficient USDT balance"
        ELSE UsdtTransferRevert(pledge.client, pledge.clientPayment)

\* a payout of the agreement's discountedValue instead of its clientPayment
PayClientPaysDiscounted(sender, agreementId) ==
    LET pledge == pledgeAgreements[agreementId]
        paymentAmount == pledge.discountedValue
    IN  /\ PayClientRevert(sender, agreementId) = NoRevert
        /\ usdtBalances' = Moved(usdtBalances, Registry, pledge.client, paymentAmount)
        /\ totalClientPayments' = Add(totalClientPayments, paymentAmount)
        /\ Mined
        /\ UNCHANGED <<tokenVars, tokenAdminVars, pledgeAgreements, assetInvestors,
                       clientPledges, investorPurchases, totalInvestorPayments,
                       platformRevenue, revenueAccrued, revenueWithdrawn,
                       managerAdminVars, usdtAllowances>>

PayClient(sender, agreementId) ==
    LET pledge == pledgeAgreements[agreementId]
        paymentAmount == pledge.clientPayment
    IN  /\ PayClientRevert(sender, agreementId) = NoRevert
        /\ usdtBalances' = Moved(usdtBalances, Registry, pledge.client, paymentAmount)
        /\ totalClientPayments' = Add(totalClientPayments, paymentAmount)
        /\ Mined
        /\ UNCHANGED <<tokenVars, tokenAdminVars, pledgeAgreements, assetInvestors,
                       clientPledges, investorPurchases, totalInvestorPayments,
                       platformRevenue, revenueAccrued, revenueWithdrawn,
                       managerAdminVars, usdtAllowances>>

\* purchaseTokens without the require on the agreement's status
PurchaseTokensRevertNoActive(sender, agreementId, tokenAmount, purchaseId) ==
    LET pledge == pledgeAgreements[agreementId]
    IN  IF paused THEN IsPaused
        ELSE IF pledge.timestamp = 0 THEN "Pledge not found"
        ELSE IF tokenAmount = U(0) THEN "Token amount must be greater than 0"
        ELSE IF Lt(balanceOf(Registry), tokenAmount) THEN "Insufficient tokens available"
        ELSE IF UsdtTransferFromRevert(sender, UsdtRequired(tokenAmount)) # NoRevert
             THEN UsdtTransferFromRevert(sender, UsdtRequired(tokenAmount))
        ELSE IF tokenPaused THEN IsPaused
        ELSE NoRevert

PurchaseTokensRevert(sender, agreementId, tokenAmount, purchaseId) ==
    LET pledge == pledgeAgreements[agreementId]
    IN  IF paused THEN IsPaused
        ELSE IF pledge.timestamp = 0 THEN "Pledge not found"
        ELSE IF pledge.status # ACTIVE THEN "Pledge not active"
        ELSE IF tokenAmount = U(0) THEN "Token amount must be greater than 0"
        ELSE IF Lt(balanceOf(Registry), tokenAmount) THEN "Insufficient tokens available"
        ELSE IF UsdtTransferFromRevert(sender, UsdtRequired(tokenAmount)) # NoRevert
             THEN UsdtTransferFromRevert(sender, UsdtRequired(tokenAmount))
        ELSE IF tokenPaused THEN IsPaused
        ELSE NoRevert

\* a purchase whose record replaces the agreement's earlier records
PurchaseTokensOverwrites(sender, agreementId, tokenAmount, purchaseId) ==
    LET usdtRequired == UsdtRequired(tokenAmount)
    IN  /\ PurchaseTokensRevert(sender, agreementId, tokenAmount, purchaseId) = NoRevert
        /\ usdtBalances' = Moved(usdtBalances, sender, Registry, usdtRequired)
        /\ usdtAllowances' = [usdtAllowances EXCEPT ![sender] = Sub(@, usdtRequired)]
        /\ tokenBalances' = Moved(tokenBalances, Registry, sender, tokenAmount)
        /\ assetInvestors' = [assetInvestors EXCEPT ![agreementId] =
               <<[investor |-> sender, tokenAmount |-> tokenAmount,
                  usdtPaid |-> usdtRequired, timestamp |-> blockTimestamp,
                  purchaseId |-> purchaseId]>>]
        /\ investorPurchases' = [investorPurchases EXCEPT ![sender] =
                                     Append(@, agreementId)]
        /\ totalInvestorPayments' = Add(totalInvestorPayments, usdtRequired)
        /\ platformRevenue' = Add(platformRevenue,
                                  RevenueShare(usdtRequired, spreadPercentage))
        /\ revenueAccrued' = Add(revenueAccrued,
                                 RevenueShare(usdtRequired, spreadPercentage))
        /\ Mined
        /\ UNCHANGED <<assets, assetIdToTokenId, currentTokenId, totalPledgedValue,
                       tokenTotalSupply, tokensRedeemed, tokenAdminVars,
                       pledgeAgreements, clientPledges, totalClientPayments,
                       revenueWithdrawn, managerAdminVars>>

PurchaseTokens(sender, agreementId, tokenAmount, purchaseId) ==
    LET usdtRequired == UsdtRequired(tokenAmount)
    IN  /\ PurchaseTokensRevert(sender, agreementId, tokenAmount, purchaseId) = NoRevert
        /\ usdtBalances' = Moved(usdtBalances, sender, Registry, usdtRequired)
        /\ usdtAllowances' = [usdtAllowances EXCEPT ![sender] = Sub(@, usdtRequired)]
        /\ tokenBalances' = Moved(tokenBalances, Registry, sender, tokenAmount)
        /\ assetInvestors' = [assetInvestors EXCEPT ![agreementId] = Append(@,
               [investor |-> sender, tokenAmount |-> tokenAmount,
                usdtPaid |-> usdtRequired, timestamp |-> blockTimestamp,
                purchaseId |-> purchaseId])]
        /\ investorPurchases' = [investorPurchases EXCEPT ![sender] =
                                     Append(@, agreementId)]
        /\ totalInvestorPayments' = Add(totalInvestorPayments, usdtRequired)
        /\ platformRevenue' = Add(platformRevenue,
                                  RevenueShare(usdtRequired, spreadPercentage))
        /\ revenueAccrued' = Add(revenueAccrued,
                                 RevenueShare(usdtRequired, spreadPercentage))
        /\ Mined
        /\ UNCHANGED <<assets, assetIdToTokenId, currentTokenId, totalPledgedValue,
                       tokenTotalSupply, tokensRedeemed, tokenAdminVars,
                       pledgeAgreements, clientPledges, totalClientPayments,
                       revenueWithdrawn, managerAdminVars>>

RepayPledgeRevert(sender, agreementId, repaymentAmount) ==
    LET pledge == pledgeAgreements[agreementId]
    IN  IF sender \notin roles[FINANCE_ROLE] THEN MissingRole
        ELSE IF pledge.timestamp = 0 THEN "Pledge not found"
        ELSE IF pledge.status # ACTIVE THEN "Pledge not active"
        ELSE IF UsdtTransferFromRevert(pledge.client, repaymentAmount) # NoRevert
             THEN UsdtTransferFromRevert(pledge.client, repaymentAmount)
        ELSE ReleaseAssetRevert(Registry, pledge.assetId, Registry, pledge.tokensIssued)

\* a repayment that leaves the agreement RELEASED instead of REPAID
RepayPledgeMarksReleased(sender, agreementId, repaymentAmount) ==
    LET pledge == pledgeAgreements[agreementId]
    IN  /\ RepayPledgeRevert(sender, agreementId, repaymentAmount) = NoRevert
        /\ usdtBalances' = Moved(usdtBalances, pledge.client, Registry, repaymentAmount)
        /\ usdtAllowances' = [usdtAllowances EXCEPT ![pledge.client] =
                                  Sub(@, repaymentAmount)]
        /\ pledgeAgreements' = [pledgeAgreements EXCEPT ![agreementId].status = RELEASED]
        /\ ReleaseAssetEffect(pledge.assetId, Registry, pledge.tokensIssued)
        /\ Mined
        /\ UNCHANGED <<tokenAdminVars, assetInvestors, clientPledges, investorPurchases,
                       totalClientPayments, totalInvestorPayments, platformRevenue,
                       revenueAccrued, revenueWithdrawn, managerAdminVars>>

\* a repayment that also writes the agreement's clientPayment off
RepayPledgeWritesOff(sender, agreementId, repaymentAmount) ==
    LET pledge == pledgeAgreements[agreementId]
    IN  /\ RepayPledgeRevert(sender, agreementId, repaymentAmount) = NoRevert
        /\ usdtBalances' = Moved(usdtBalances, pledge.client, Registry, repaymentAmount)
        /\ usdtAllowances' = [usdtAllowances EXCEPT ![pledge.client] =
                                  Sub(@, repaymentAmount)]
        /\ pledgeAgreements' = [pledgeAgreements EXCEPT
                                    ![agreementId].status = REPAID,
                                    ![agreementId].clientPayment = U(0)]
        /\ ReleaseAssetEffect(pledge.assetId, Registry, pledge.tokensIssued)
        /\ Mined
        /\ UNCHANGED <<tokenAdminVars, assetInvestors, clientPledges, investorPurchases,
                       totalClientPayments, totalInvestorPayments, platformRevenue,
                       revenueAccrued, revenueWithdrawn, managerAdminVars>>

RepayPledge(sender, agreementId, repaymentAmount) ==
    LET pledge == pledgeAgreements[agreementId]
    IN  /\ RepayPledgeRevert(sender, agreementId, repaymentAmount) = NoRevert
        /\ usdtBalances' = Moved(usdtBalances, pledge.client, Registry, repaymentAmount)
        /\ usdtAllowances' = [usdtAllowances EXCEPT ![pledge.client] =
                                  Sub(@, repaymentAmount)]
        /\ pledgeAgreements' = [pledgeAgreements EXCEPT ![agreementId].status = REPAID]
        /\ ReleaseAssetEffect(pledge.assetId, Registry, pledge.tokensIssued)
        /\ Mined
        /\ UNCHANGED <<tokenAdminVars, assetInvestors, clientPledges, investorPurchases,
                       totalClientPayments, totalInvestorPayments, platformRevenue,
                       revenueAccrued, revenueWithdrawn, managerAdminVars>>

SetSpreadPercentageRevert(sender, newSpread) ==
    IF sender \notin roles[DEFAULT_ADMIN_ROLE] THEN MissingRole
    ELSE IF ~(newSpread <= 50) THEN "Spread cannot exceed 50%"
    ELSE NoRevert

\* a spread change that also clears the accumulated revenue
SetSpreadPercentageClearsRevenue(sender, newSpread) ==
    /\ SetSpreadPercentageRevert(sender, newSpread) = NoRevert
    /\ spreadPercentage' = newSpread
    /\ platformRevenue' = U(0)
    /\ Mined
    /\ UNCHANGED <<tokenVars, tokenAdminVars, pledgeAgreements, assetInvestors,
                   clientPledges, investorPurchases, totalClientPayments,
                   totalInvestorPayments, revenueAccrued, revenueWithdrawn, paused,
                   roles, usdtVars>>

SetSpreadPercentage(sender, newSpread) ==
    /\ SetSpreadPercentageRevert(sender, newSpread) = NoRevert
    /\ spreadPercentage' = newSpread
    /\ Mined
    /\ UNCHANGED <<tokenVars, tokenAdminVars, managerVars, paused, roles, usdtVars>>

\* withdrawRevenue without its require(amount <= platformRevenue)
WithdrawRevenueRevertNoLimit(sender, to, amount) ==
    IF sender \notin roles[FINANCE_ROLE] THEN MissingRole
    ELSE IF to = ZeroAddress THEN "Invalid address"
    ELSE UsdtTransferRevert(to, amount)

WithdrawRevenueRevert(sender, to, amount) ==
    IF sender \notin roles[FINANCE_ROLE] THEN MissingRole
    ELSE IF to = ZeroAddress THEN "Invalid address"
    ELSE IF ~Leq(amount, platformRevenue) THEN "Amount exceeds available revenue"
    ELSE UsdtTransferRevert(to, amount)

WithdrawRevenue(sender, to, amount) ==
    /\ WithdrawRevenueRevert(sender, to, amount) = NoRevert
    /\ usdtBalances' = Moved(usdtBalances, Registry, to, amount)
    /\ platformRevenue' = Sub(platformRevenue, amount)
    /\ revenueWithdrawn' = Add(revenueWithdrawn, amount)
    /\ Mined
    /\ UNCHANGED <<tokenVars, tokenAdminVars, pledgeAgreements, assetInvestors,
                   clientPledges, investorPurchases, totalClientPayments,
                   totalInvestorPayments, revenueAccrued, managerAdminVars,
                   usdtAllowances>>

PauseRevert(sender) ==
    IF sender \notin roles[DEFAULT_ADMIN_ROLE] THEN MissingRole
    ELSE IF paused THEN IsPaused
    ELSE NoRevert

Pause(sender) ==
    /\ PauseRevert(sender) = NoRevert
    /\ paused' = TRUE
    /\ Mined
    /\ UNCHANGED <<tokenVars, tokenAdminVars, managerVars, spreadPercentage, roles,
                   usdtVars>>

UnpauseRevert(sender) ==
    IF sender \notin roles[DEFAULT_ADMIN_ROLE] THEN MissingRole
    ELSE IF ~paused THEN NotPaused
    ELSE NoRevert

Unpause(sender) ==
    /\ UnpauseRevert(sender) = NoRevert
    /\ paused' = FALSE
    /\ Mined
    /\ UNCHANGED <<tokenVars, tokenAdminVars, managerVars, spreadPercentage, roles,
                   usdtVars>>

\* the onlyRole(DEFAULT_ADMIN_ROLE) gate of the four role entrypoints, and of the
\* AccessControl.grantRole / revokeRole they call
RoleAdminRevert(sender) ==
    IF sender \notin roles[DEFAULT_ADMIN_ROLE] THEN MissingRole ELSE NoRevert

GrantRole(sender, role, account) ==
    /\ RoleAdminRevert(sender) = NoRevert
    /\ roles' = [roles EXCEPT ![role] = @ \cup {account}]
    /\ Mined
    /\ UNCHANGED <<tokenVars, tokenAdminVars, managerVars, spreadPercentage, paused,
                   usdtVars>>

RevokeRole(sender, role, account) ==
    /\ RoleAdminRevert(sender) = NoRevert
    /\ roles' = [roles EXCEPT ![role] = @ \ {account}]
    /\ Mined
    /\ UNCHANGED <<tokenVars, tokenAdminVars, managerVars, spreadPercentage, paused,
                   usdtVars>>

GrantOperatorRole(sender, account) == GrantRole(sender, OPERATOR_ROLE, account)
GrantFinanceRole(sender, account) == GrantRole(sender, FINANCE_ROLE, account)
RevokeOperatorRole(sender, account) == RevokeRole(sender, OPERATOR_ROLE, account)
RevokeFinanceRole(sender, account) == RevokeRole(sender, FINANCE_ROLE, account)

(***************************************************************************)
(* ReentrancyGuard.  Both contracts inherit it; a function carrying the    *)
(* nonReentrant modifier reverts when the guard of its contract is entered *)
(* and holds the guard entered while it runs.  A function without the      *)
(* modifier neither tests nor sets the guard.                              *)
(***************************************************************************)
ReentrantCall == "ReentrancyGuard: reentrant call"

\* the entrypoints that write balances or ledger state, by contract
RegistryEntrypoints == {"createPledge", "payClient", "purchaseTokens", "repayPledge",
                        "withdrawRevenue"}
LedgerEntrypoints == {"pledgeAsset", "releaseAsset"}

\* the entrypoints declared nonReentrant
NonReentrant == {"createPledge", "payClient", "purchaseTokens", "repayPledge",
                 "pledgeAsset", "releaseAsset"}

\* what a call of inner gets when it arrives, through a callback of the stable
\* asset's transfer, while outer of the same contract is suspended at that
\* transfer: the guard's error when outer holds the guard and inner tests it,
\* otherwise the result of inner's own checks.  payClient and withdrawRevenue make
\* the transfer before they write anything, so inner's checks see the state in
\* which outer was called.
Reentered(outer, inner, result) ==
    IF outer \in NonReentrant /\ inner \in NonReentrant THEN ReentrantCall ELSE result

(***************************************************************************)
(* The environment: a later block.                                         *)
(***************************************************************************)
NextBlock ==
    /\ steps < MaxSteps
    /\ steps' = steps + 1
    /\ blockTimestamp' = blockTimestamp + 1
    /\ UNCHANGED <<tokenVars, tokenAdminVars, managerVars, managerAdminVars, usdtVars>>

Next ==
    \/ \E s \in Senders, a \in AssetIds, t \in AssetTypes, d \in Descriptions,
          v \in OriginalValues : PledgeAsset(s, a, t, d, v, s)
    \/ \E s \in Senders, a \in AssetIds, n \in RedeemAmounts :
          \E h \in {s, Registry} : ReleaseAsset(s, a, h, n)
    \/ \E s \in Senders, r \in NewRates : SetDiscountRate(s, r)
    \/ \E s \in Senders : TokenPause(s)
    \/ \E s \in Senders : TokenUnpause(s)
    \/ \E s \in Senders, to \in Clients, n \in TokenAmounts : TokenTransfer(s, to, n)
    \/ \E s \in Senders, a \in Grantees : TokenGrantRole(s, PLEDGE_MANAGER_ROLE, a)
    \/ \E s \in Senders, a \in Grantees \cup {Registry} :
          TokenRevokeRole(s, PLEDGE_MANAGER_ROLE, a)
    \/ \E s \in Investors \cup Clients, n \in ApproveAmounts : UsdtApprove(s, n)
    \/ \E s \in Clients : GetTestUSDT(s)
    \/ \E s \in Senders, ga \in PledgeInputs, c \in Clients, t \in AssetTypes,
          d \in Descriptions, h \in DocumentHashes :
          \E v \in ValuesFor(ga[1]) : CreatePledge(s, ga[1], c, ga[2], t, d, v, h)
    \/ \E s \in Senders, g \in AgreementIds : PayClient(s, g)
    \/ \E s \in Investors, g \in AgreementIds, n \in TokenAmounts, p \in PurchaseIds :
          PurchaseTokens(s, g, n, p)
    \/ \E s \in Senders, g \in AgreementIds, n \in RepaymentAmounts : RepayPledge(s, g, n)
    \/ \E s \in Senders, n \in NewSpreads : SetSpreadPercentage(s, n)
    \/ \E s \in Senders, to \in Senders, n \in WithdrawAmounts : WithdrawRevenue(s, to, n)
    \/ \E s \in Senders : Pause(s)
    \/ \E s \in Senders : Unpause(s)
    \/ \E s \in Senders, a \in Grantees : GrantOperatorRole(s, a)
    \/ \E s \in Senders, a \in Grantees : GrantFinanceRole(s, a)
    \/ \E s \in Senders, a \in Grantees \cup {Admin} : RevokeOperatorRole(s, a)
    \/ \E s \in Senders, a \in Grantees \cup {Admin} : RevokeFinanceRole(s, a)
    \/ NextBlock

Spec == Init /\ [][Next]_vars

SpecAtEpoch == InitAtEpoch /\ [][Next]_vars

(***************************************************************************)
(* Properties.  Products and quotients are restated here from first        *)
(* principles (q = floor(a / k) iff q * k <= a < (q + 1) * k), not through  *)
(* the operators the contracts' model computes them with.                  *)
(***************************************************************************)
RECURSIVE SumOver(_, _)
SumOver(f, S) == IF S = {} THEN U(0)
                 ELSE LET a == CHOOSE a \in S : TRUE
                      IN  Add(f[a], SumOver(f, S \ {a}))

RECURSIVE SumSeq(_)
SumSeq(q) == IF q = <<>> THEN U(0) ELSE Add(Head(q), SumSeq(Tail(q)))

TimesE18(a) == IF a = <<>> THEN <<>> ELSE <<0, 0, 0>> \o a
TimesE6(a) == Mul(Mul(a, 1000), 1000)
IsFloorDiv(q, a, k) == Leq(Mul(q, k), a) /\ Lt(a, Mul(Add(q, U(1)), k))
IsFloorDivE18(q, a) == Leq(TimesE18(q), a) /\ Lt(a, TimesE18(Add(q, U(1))))
\* the tokens issued for asset record i: floor(pledgedValue / 1e18)
Issued(i) == DivE18(assets[i].pledgedValue)
AssetIndex == 1..Len(assets)
Created(g) == \E c \in Accounts : \E k \in 1..Len(clientPledges[c]) :
                  clientPledges[c][k] = g

\* C1: Conservation.  In every reachable state the sum of all token balances is
\* the total supply, and the total supply equals the tokens issued over all asset
\* records less the tokens redeemed against them (supply + redeemed = issued).
C1_Conservation ==
    /\ SumOver(tokenBalances, Accounts) = tokenTotalSupply
    /\ Len(tokensRedeemed) = Len(assets)
    /\ Add(tokenTotalSupply, SumSeq(tokensRedeemed))
           = SumSeq([i \in AssetIndex |-> Issued(i)])

\* C1 witness: one token of a 70,000-token asset has been redeemed
C1_Witness ==
    \E i \in AssetIndex : tokensRedeemed[i] = U(1) /\ tokenTotalSupply = U(69999)

\* C2: Access control.  Whatever its arguments, a call by an identity that lacks
\* the required role reverts with the missing-role error (and so changes no
\* state): operator for createPledge; finance for payClient, repayPledge and
\* withdrawRevenue; admin for setSpreadPercentage, role grant/revoke and the
\* registry's pause/unpause; on the ledger the pledge-manager role for
\* pledgeAsset/releaseAsset, admin for setDiscountRate, pauser for pause/unpause.
C2_AccessControl ==
    /\ \A s \in Senders : s \notin roles[OPERATOR_ROLE] =>
           \A g \in AnyAgreementId, c \in AnyAccount, a \in AnyAssetId,
              v \in AnyOriginalValue : CreatePledgeRevert(s, g, c, a, v) = MissingRole
    /\ \A s \in Senders : s \notin roles[FINANCE_ROLE] =>
           /\ \A g \in AnyAgreementId : PayClientRevert(s, g) = MissingRole
           /\ \A g \in AnyAgreementId, n \in RepaymentAmounts :
                  RepayPledgeRevert(s, g, n) = MissingRole
           /\ \A to \in AnyAccount, n \in WithdrawAmounts \cup {U(0)} :
                  WithdrawRevenueRevert(s, to, n) = MissingRole
    /\ \A s \in Senders : s \notin roles[DEFAULT_ADMIN_ROLE] =>
           /\ \A n \in AnySpread : SetSpreadPercentageRevert(s, n) = MissingRole
           /\ RoleAdminRevert(s) = MissingRole
           /\ PauseRevert(s) = MissingRole
           /\ UnpauseRevert(s) = MissingRole
    /\ \A s \in Accounts : s \notin tokenRoles[PLEDGE_MANAGER_ROLE] =>
           /\ \A a \in AnyAssetId, v \in AnyOriginalValue, p \in AnyAccount :
                  PledgeAssetRevert(s, a, v, p) = MissingRole
           /\ \A a \in AnyAssetId, h \in AnyAccount, n \in RedeemAmounts :
                  ReleaseAssetRevert(s, a, h, n) = MissingRole
    /\ \A s \in Accounts : s \notin tokenRoles[DEFAULT_ADMIN_ROLE] =>
           \A r \in AnyRate : SetDiscountRateRevert(s, r) = MissingRole
    /\ \A s \in Accounts : s \notin tokenRoles[PAUSER_ROLE] =>
           TokenPauseRevert(s) = MissingRole /\ TokenUnpauseRevert(s) = MissingRole

\* C2 witness: the admin's finance role was revoked while a payable agreement is
\* active, and its payClient is rejected for the missing role alone
C2_Witness ==
    /\ Admin \notin roles[FINANCE_ROLE]
    /\ PayClientRevert(Admin, "A1") = MissingRole
    /\ pledgeAgreements["A1"].status = ACTIVE
    /\ Leq(pledgeAgreements["A1"].clientPayment, usdtBalances[Registry])

C4_ClientPaymentFixedAtCreation ==
    [][\A g \in AgreementIds :
          /\ (~Created(g) /\ Created(g)') =>
                 IsFloorDiv(pledgeAgreements'[g].clientPayment,
                            Mul(pledgeAgreements'[g].discountedValue,
                                100 - spreadPercentage), 100)
          /\ Created(g) =>
                 pledgeAgreements'[g].clientPayment = pledgeAgreements[g].clientPayment
      ]_vars

\* C4 witness: an agreement created at spread 15 keeps its payment (59,500 * 1e18
\* for 70,000 * 1e18) after the spread was set to 50
C4_Witness ==
    /\ spreadPercentage = 50
    /\ \E g \in AgreementIds :
           /\ Created(g)
           /\ pledgeAgreements[g].discountedValue = E18(70000)
           /\ pledgeAgreements[g].clientPayment = E18(59500)

\* C5 as claimed: an agreement for originalValue 100,000 * 1e18 created at
\* discount rate 70 and spread 15 stores a clientPayment of 59,500 * 1e6, the
\* 6-decimal stable-asset amount payClient is to transfer.
C5_ClientPaymentInStableUnits ==
    \A g \in AgreementIds :
        (/\ Created(g)
         /\ pledgeAgreements[g].originalValue = E18(100000)
         /\ pledgeAgreements[g].discountedValue = E18(70000)
         /\ spreadPercentage = 15)
        => pledgeAgreements[g].clientPayment = E6(59500)

\* C6: a step that adds asset record tokenId stores pledgedValue =
\* floor(originalValue * discountRate / 100) with the rate before the step, grows
\* totalPledgedValue by pledgedValue, and mints floor(pledgedValue / 1e18) tokens
\* to the pledger and to nobody else.
C6_PledgeAssetValues ==
    [][currentTokenId' # currentTokenId =>
          LET rec == assets'[currentTokenId]
              minted == Sub(tokenBalances'[rec.pledger], tokenBalances[rec.pledger])
          IN  /\ currentTokenId' = currentTokenId + 1
              /\ Len(assets') = currentTokenId
              /\ rec.isActive
              /\ assetIdToTokenId'[rec.assetId] = currentTokenId
              /\ IsFloorDiv(rec.pledgedValue, Mul(rec.originalValue, discountRate), 100)
              /\ totalPledgedValue' = Add(totalPledgedValue, rec.pledgedValue)
              /\ Leq(tokenBalances[rec.pledger], tokenBalances'[rec.pledger])
              /\ IsFloorDivE18(minted, rec.pledgedValue)
              /\ tokenTotalSupply' = Add(tokenTotalSupply, minted)
              /\ \A a \in Accounts \ {rec.pledger} : tokenBalances'[a] = tokenBalances[a]
      ]_vars

\* C6 witness: 3 base units pledged at rate 70 are recorded as floor(2.1) = 2
C6_Witness ==
    \E i \in AssetIndex :
        assets[i].originalValue = U(3) /\ assets[i].pledgedValue = U(2)

\* C7: once an agreementId has been created, every further createPledge with it
\* reverts, whoever calls and whatever the other arguments are.
C7_DuplicateAgreementRejected ==
    \A g \in AgreementIds : Created(g) =>
        \A s \in Senders, c \in AnyAccount, a \in AnyAssetId, v \in AnyOriginalValue :
            CreatePledgeRevert(s, g, c, a, v) # NoRevert

\* C7 witness: A1 exists as a 0-token agreement, and a createPledge that is valid
\* but for its agreementId A1 is rejected as a duplicate
C7_Witness ==
    /\ Created("A1")
    /\ pledgeAgreements["A1"].tokensIssued = U(0)
    /\ CreatePledgeRevert(Admin, "A1", "alice", "X2", U(3)) = "Agreement already exists"
    /\ CreatePledgeRevert(Admin, "A2", "alice", "X2", U(3)) = NoRevert

\* C8 as claimed: no two InvestorPurchase records carry the same purchaseId.
C8_PurchaseIdsUnique ==
    \A g1 \in AgreementIds, g2 \in AgreementIds :
        \A k1 \in 1..Len(assetInvestors[g1]), k2 \in 1..Len(assetInvestors[g2]) :
            assetInvestors[g1][k1].purchaseId = assetInvestors[g2][k2].purchaseId
                => (g1 = g2 /\ k1 = k2)

\* C9: Round trip.  A release of at least the issued amount retires the asset and
\* takes exactly its pledgedValue off totalPledgedValue; a retired asset stays
\* retired, nothing more is redeemed against it, and totalPledgedValue goes down
\* only in the step that retires an asset.
C9_ReleaseRoundTrip ==
    [][/\ \A i \in AssetIndex :
              /\ (assets[i].isActive /\ ~assets'[i].isActive) =>
                     Add(totalPledgedValue', assets[i].pledgedValue) = totalPledgedValue
              /\ (/\ assets[i].isActive
                  /\ tokensRedeemed'[i] # tokensRedeemed[i]
                  /\ Leq(Add(tokensRedeemed[i], Issued(i)), tokensRedeemed'[i]))
                     => ~assets'[i].isActive
              /\ ~assets[i].isActive =>
                     /\ ~assets'[i].isActive
                     /\ tokensRedeemed'[i] = tokensRedeemed[i]
       /\ Lt(totalPledgedValue', totalPledgedValue) =>
              \E i \in AssetIndex : assets[i].isActive /\ ~assets'[i].isActive
      ]_vars

\* C9 witness: a 70,000-token asset was released in full, and a further release
\* by a role holder is refused because the asset is not active
C9_Witness ==
    \E i \in AssetIndex :
        /\ ~assets[i].isActive
        /\ tokensRedeemed[i] = U(70000)
        /\ totalPledgedValue = U(0)
        /\ ReleaseAssetRevert(Admin, assets[i].assetId, Admin, U(0)) = "Asset is not active"

\* C10: a step that appends a purchase record of n tokens by investor I moves
\* n * 1e6 stable-asset units from I to the registry and n tokens from the
\* registry to I, adds n * 1e6 to totalInvestorPayments and
\* floor(n * 1e6 * spreadPercentage / 100) to platformRevenue; 1,000 tokens at
\* spread 15 cost 1,000 * 1e6 and add 150 * 1e6.
C10_PurchaseMovesFunds ==
    [][\A g \in AgreementIds :
          assetInvestors'[g] # assetInvestors[g] =>
              LET rec == assetInvestors'[g][Len(assetInvestors'[g])]
                  I == rec.investor
                  n == rec.tokenAmount
                  paid == TimesE6(n)
              IN  /\ assetInvestors'[g] = Append(assetInvestors[g], rec)
                  /\ rec.usdtPaid = paid
                  /\ Add(usdtBalances'[I], paid) = usdtBalances[I]
                  /\ usdtBalances'[Registry] = Add(usdtBalances[Registry], paid)
                  /\ Add(tokenBalances'[Registry], n) = tokenBalances[Registry]
                  /\ tokenBalances'[I] = Add(tokenBalances[I], n)
                  /\ totalInvestorPayments' = Add(totalInvestorPayments, paid)
                  /\ Leq(platformRevenue, platformRevenue')
                  /\ IsFloorDiv(Sub(platformRevenue', platformRevenue),
                                Mul(paid, spreadPercentage), 100)
                  /\ (n = U(1000) /\ spreadPercentage = 15) =>
                         /\ paid = E6(1000)
                         /\ platformRevenue' = Add(platformRevenue, E6(150))
      ]_vars

\* C10 witness: 1,000 tokens were bought at spread 15
C10_Witness ==
    /\ platformRevenue = E6(150)
    /\ \E g \in AgreementIds : \E k \in 1..Len(assetInvestors[g]) :
           /\ assetInvestors[g][k].tokenAmount = U(1000)
           /\ assetInvestors[g][k].usdtPaid = E6(1000)

\* C11: while the registry's stable-asset balance is below an agreement's
\* clientPayment, payClient for it is rejected whoever calls (for a finance caller
\* of an active agreement with the registry's own "Insufficient USDT balance"),
\* and no step pays that amount out: totalClientPayments does not grow by it and
\* the client's and the registry's balances do not move by it.
C11_PayClientInsufficientBalance ==
    [][\A g \in AgreementIds :
          LET pledge == pledgeAgreements[g]
          IN  (Created(g) /\ Lt(usdtBalances[Registry], pledge.clientPayment)) =>
                  /\ \A s \in Senders :
                         /\ PayClientRevert(s, g) # NoRevert
                         /\ (s \in roles[FINANCE_ROLE] /\ pledge.status = ACTIVE) =>
                                PayClientRevert(s, g) = "Insufficient USDT balance"
                  /\ totalClientPayments' # Add(totalClientPayments, pledge.clientPayment)
                  /\ usdtBalances'[pledge.client]
                         # Add(usdtBalances[pledge.client], pledge.clientPayment)
                  /\ Add(usdtBalances'[Registry], pledge.clientPayment)
                         # usdtBalances[Registry]
      ]_vars

\* C11 witness: the registry holds 500,000 * 1e6 and the active agreement's
\* clientPayment is 59,500 * 1e18; the finance caller's payClient is rejected
C11_Witness ==
    /\ pledgeAgreements["A1"].status = ACTIVE
    /\ pledgeAgreements["A1"].clientPayment = E18(59500)
    /\ usdtBalances[Registry] = E6(500000)
    /\ PayClientRevert(Admin, "A1") = "Insufficient USDT balance"
    /\ steps < MaxSteps

\* C12: Agreement lifecycle.  A stored agreement is ACTIVE or REPAID in every
\* state (never PENDING, DEFAULTED or RELEASED); it is ACTIVE when the step that
\* creates it completes; its status changes only from ACTIVE to REPAID, in a step
\* that redeems its tokensIssued from the registry and retires its asset (a
\* repayPledge); and a REPAID agreement stays REPAID and accepts no repayPledge.
C12_AgreementLifecycle ==
    [][\A g \in AgreementIds :
          LET before == pledgeAgreements[g]
              after == pledgeAgreements'[g]
              tokenId == assetIdToTokenId[before.assetId]
          IN  /\ Created(g) => before.status \in {ACTIVE, REPAID}
              /\ Created(g)' => after.status \in {ACTIVE, REPAID}
              /\ (~Created(g) /\ Created(g)') => after.status = ACTIVE
              /\ (Created(g) /\ after.status # before.status) =>
                     /\ before.status = ACTIVE
                     /\ after.status = REPAID
                     /\ Add(tokenBalances'[Registry], before.tokensIssued)
                            = tokenBalances[Registry]
                     /\ assets[tokenId].isActive /\ ~assets'[tokenId].isActive
              /\ (Created(g) /\ before.status = REPAID) =>
                     /\ after.status = REPAID
                     /\ \A s \in Senders, n \in RepaymentAmounts :
                            RepayPledgeRevert(s, g, n) # NoRevert
      ]_vars

\* C12 witness: an agreement is REPAID, and a further repayPledge by the finance
\* caller is refused because the pledge is not active
C12_Witness ==
    \E g \in AgreementIds :
        /\ Created(g)
        /\ pledgeAgreements[g].status = REPAID
        /\ RepayPledgeRevert(Admin, g, U(0)) = "Pledge not active"
        /\ steps < MaxSteps

\* C13: repayPledge redeems the agreement's whole tokensIssued from the
\* registry's own token balance.  While the registry holds fewer tokens than an
\* active agreement's tokensIssued, every repayPledge for it is rejected (with
\* "Insufficient token balance" when the caller has the finance role, the client
\* has approved and holds the repayment, and the ledger accepts the registry's
\* call on an active asset), so in every step that starts there the agreement
\* stays as it is, the client's stable-asset balance goes down only by a purchase
\* of the client's own, and the asset is retired only by a release that burns
\* another holder's tokens directly on the ledger.
C13_RepayNeedsAllTokens ==
    [][\A g \in AgreementIds :
          LET pledge == pledgeAgreements[g]
              tokenId == assetIdToTokenId[pledge.assetId]
          IN  (/\ Created(g)
               /\ pledge.status = ACTIVE
               /\ Lt(tokenBalances[Registry], pledge.tokensIssued)) =>
                  /\ \A s \in Senders, n \in RepaymentAmounts :
                         /\ RepayPledgeRevert(s, g, n) # NoRevert
                         /\ (/\ s \in roles[FINANCE_ROLE]
                             /\ Leq(n, usdtAllowances[pledge.client])
                             /\ Leq(n, usdtBalances[pledge.client])
                             /\ Registry \in tokenRoles[PLEDGE_MANAGER_ROLE]
                             /\ ~tokenPaused
                             /\ assets[tokenId].isActive) =>
                                RepayPledgeRevert(s, g, n) = "Insufficient token balance"
                  /\ pledgeAgreements'[g] = pledge
                  /\ Lt(usdtBalances'[pledge.client], usdtBalances[pledge.client]) =>
                         investorPurchases'[pledge.client]
                             # investorPurchases[pledge.client]
                  /\ assets'[tokenId].isActive # assets[tokenId].isActive =>
                         tokenBalances'[Registry] = tokenBalances[Registry]
      ]_vars

\* C13 witness: 1,000 of the 70,000 tokens of A1 were sold, the client has
\* nothing to approve for a zero repayment, and repayPledge is refused for the
\* registry's insufficient token balance
C13_Witness ==
    /\ pledgeAgreements["A1"].status = ACTIVE
    /\ pledgeAgreements["A1"].tokensIssued = U(70000)
    /\ tokenBalances[Registry] = U(69000)
    /\ RepayPledgeRevert(Admin, "A1", U(0)) = "Insufficient token balance"
    /\ steps < MaxSteps

\* C14 as claimed: every balance- or ledger-mutating entrypoint is under the
\* non-reentrant guard, so no call of a registry entrypoint succeeds that arrives
\* through a callback of the stable-asset transfer while payClient or
\* withdrawRevenue is still in progress.
C14_NoReentryDuringTransfer ==
    /\ RegistryEntrypoints \cup LedgerEntrypoints \subseteq NonReentrant
    /\ \A outer \in {"payClient", "withdrawRevenue"}, s \in Senders :
           /\ \A g \in PledgeInputs, c \in Clients, v \in OriginalValues :
                  Reentered(outer, "createPledge",
                            CreatePledgeRevert(s, g[1], c, g[2], v)) # NoRevert
           /\ \A g \in AgreementIds :
                  Reentered(outer, "payClient", PayClientRevert(s, g)) # NoRevert
           /\ \A g \in AgreementIds, n \in TokenAmounts, p \in PurchaseIds :
                  Reentered(outer, "purchaseTokens",
                            PurchaseTokensRevert(s, g, n, p)) # NoRevert
           /\ \A g \in AgreementIds, n \in RepaymentAmounts :
                  Reentered(outer, "repayPledge", RepayPledgeRevert(s, g, n)) # NoRevert
           /\ \A to \in Senders, n \in WithdrawAmounts :
                  Reentered(outer, "withdrawRevenue",
                            WithdrawRevenueRevert(s, to, n)) # NoRevert

\* C15 as claimed: setSpreadPercentage accepts 0..50 only, and the revenue a
\* purchase books against an agreement is computed with the spread the agreement
\* was created under (the spread its stored clientPayment was taken with), not
\* with a spread set later.
C15_SpreadOnlyForFuturePledges ==
    [][/\ \A s \in Senders, n \in AnySpread :
              n > 50 => SetSpreadPercentageRevert(s, n) # NoRevert
       /\ \A g \in AgreementIds :
              assetInvestors'[g] # assetInvestors[g] =>
                  LET pledge == pledgeAgreements[g]
                      paid == assetInvestors'[g][Len(assetInvestors'[g])].usdtPaid
                  IN  /\ pledgeAgreements'[g] = pledge
                      /\ Leq(platformRevenue, platformRevenue')
                      /\ \E sp \in 0..50 :
                             /\ IsFloorDiv(pledge.clientPayment,
                                           Mul(pledge.discountedValue, 100 - sp), 100)
                             /\ IsFloorDiv(Sub(platformRevenue', platformRevenue),
                                           Mul(paid, sp), 100)
      ]_vars

\* the arguments of a createPledge that nothing but a pause stands against
ValidCreate(s, g, c, a, v) ==
    /\ s \in roles[OPERATOR_ROLE]
    /\ g # "" /\ ~Created(g)
    /\ c # ZeroAddress
    /\ a # "" /\ assetIdToTokenId[a] = 0
    /\ Registry \in tokenRoles[PLEDGE_MANAGER_ROLE]
    /\ ~tokenPaused
    /\ v # U(0) /\ Fits(Mul(v, 100))

\* C16: while the registry is paused every createPledge and every purchaseTokens
\* is rejected (as paused, for an operator's createPledge and for any
\* purchaseTokens), and no step creates an agreement or records a purchase; a
\* createPledge with valid arguments is accepted whenever the registry is not
\* paused, and the step that unpauses keeps the arguments that were valid but for
\* the pause valid, so the call rejected before it is accepted after it.
C16_RegistryPause ==
    [][/\ paused =>
              /\ \A s \in Senders, g \in AnyAgreementId, c \in AnyAccount,
                    a \in AnyAssetId, v \in AnyOriginalValue :
                     /\ CreatePledgeRevert(s, g, c, a, v) # NoRevert
                     /\ s \in roles[OPERATOR_ROLE] =>
                            CreatePledgeRevert(s, g, c, a, v) = IsPaused
              /\ \A s \in Accounts, g \in AnyAgreementId, n \in AnyTokenAmount,
                    p \in PurchaseIds : PurchaseTokensRevert(s, g, n, p) = IsPaused
              /\ UNCHANGED <<clientPledges, assetInvestors, investorPurchases,
                             totalInvestorPayments>>
              /\ \A g \in AgreementIds :
                     ~Created(g) => pledgeAgreements'[g] = pledgeAgreements[g]
       /\ ~paused =>
              \A s \in Senders, g \in AgreementIds, c \in Clients, a \in AssetIds,
                 v \in OriginalValues :
                  ValidCreate(s, g, c, a, v) => CreatePledgeRevert(s, g, c, a, v) = NoRevert
       /\ (paused /\ ~paused') =>
              \A s \in Senders, g \in AgreementIds, c \in Clients, a \in AssetIds,
                 v \in OriginalValues :
                  ValidCreate(s, g, c, a, v) =>
                      /\ CreatePledgeRevert(s, g, c, a, v) = IsPaused
                      /\ ValidCreate(s, g, c, a, v)'
      ]_vars

\* C16 witness: the registry is paused and a createPledge that is valid otherwise,
\* as well as a purchase of tokens the registry holds, is rejected as paused
C16_Witness ==
    /\ paused
    /\ ValidCreate(Admin, "A2", "alice", "X2", E18(100000))
    /\ CreatePledgeRevert(Admin, "A2", "alice", "X2", E18(100000)) = IsPaused
    /\ pledgeAgreements["A1"].status = ACTIVE
    /\ Leq(U(1000), tokenBalances[Registry])
    /\ PurchaseTokensRevert(Admin, "A1", U(1000), "P1") = IsPaused
    /\ steps < MaxSteps

\* C17: while the ledger is paused every pledgeAsset, releaseAsset and token
\* transfer is rejected, and so is every createPledge, purchaseTokens and
\* repayPledge on the registry; no step changes a token balance, the supply, an
\* asset record, the asset index or totalPledgedValue, and none creates an
\* agreement, records a purchase or changes an agreement.
C17_LedgerPause ==
    [][tokenPaused =>
          /\ \A s \in Accounts, a \in AnyAssetId, v \in AnyOriginalValue,
                p \in AnyAccount : PledgeAssetRevert(s, a, v, p) # NoRevert
          /\ \A s \in Accounts, a \in AnyAssetId, h \in AnyAccount, n \in RedeemAmounts :
                 /\ ReleaseAssetRevert(s, a, h, n) # NoRevert
                 /\ s \in tokenRoles[PLEDGE_MANAGER_ROLE] =>
                        ReleaseAssetRevert(s, a, h, n) = IsPaused
          /\ \A s \in Accounts, to \in AnyAccount, n \in AnyTokenAmount :
                 TokenTransferRevert(s, to, n) # NoRevert
          /\ \A s \in Senders, g \in AnyAgreementId, c \in AnyAccount, a \in AnyAssetId,
                v \in AnyOriginalValue : CreatePledgeRevert(s, g, c, a, v) # NoRevert
          /\ \A s \in Accounts, g \in AnyAgreementId, n \in AnyTokenAmount,
                p \in PurchaseIds : PurchaseTokensRevert(s, g, n, p) # NoRevert
          /\ \A s \in Senders, g \in AnyAgreementId, n \in RepaymentAmounts :
                 RepayPledgeRevert(s, g, n) # NoRevert
          /\ UNCHANGED <<assets, assetIdToTokenId, currentTokenId, totalPledgedValue,
                         tokenBalances, tokenTotalSupply, tokensRedeemed>>
          /\ UNCHANGED <<pledgeAgreements, clientPledges, assetInvestors,
                         investorPurchases, totalInvestorPayments>>
      ]_vars

\* C17 witness: the ledger is paused while the registry holds the 70,000 tokens
\* of an active agreement; a release by a role holder, a transfer, a purchase and
\* a repayment that would succeed otherwise are rejected
C17_Witness ==
    /\ tokenPaused
    /\ pledgeAgreements["A1"].status = ACTIVE
    /\ tokenBalances[Registry] = U(70000)
    /\ ReleaseAssetRevert(Admin, "X1", Registry, U(1)) = IsPaused
    /\ TokenTransferRevert(Registry, "alice", U(1)) = IsPaused
    /\ RepayPledgeRevert(Admin, "A1", U(0)) = IsPaused
    /\ PurchaseTokensRevert(Admin, "A1", U(1), "P1") # NoRevert
    /\ steps < MaxSteps

\* C18: All-or-nothing createPledge.  Whenever the ledger would reject the
\* registry's pledgeAsset (assetId empty or already registered, ledger paused,
\* registry without the ledger role), every createPledge with that assetId is
\* rejected, also an operator's with arguments that are valid otherwise.  No agreement is ever stored without its asset record: an agreementId
\* that was not created has an empty slot and no entry in a client's index, a
\* created one has an asset record of the registry with its values, and the step
\* that creates it appends that record.  An agreementId that was not created is
\* accepted by a createPledge with valid arguments.
C18_CreatePledgeAllOrNothing ==
    [][/\ \A a \in AnyAssetId, v \in OriginalValues :
              PledgeAssetRevert(Registry, a, v, Registry) # NoRevert =>
                  \A s \in roles[OPERATOR_ROLE], g \in AgreementIds, c \in Clients :
                      CreatePledgeRevert(s, g, c, a, v) # NoRevert
       /\ \A g \in AgreementIds :
              LET pledge == pledgeAgreements[g]
                  tokenId == assetIdToTokenId[pledge.assetId]
              IN  /\ ~Created(g) =>
                         /\ pledge = NoAgreement
                         /\ ~paused =>
                                \A s \in roles[OPERATOR_ROLE], c \in Clients,
                                   a \in AssetIds :
                                    ValidCreate(s, g, c, a, E18(100000)) =>
                                        CreatePledgeRevert(s, g, c, a, E18(100000))
                                            = NoRevert
                  /\ Created(g) =>
                         /\ pledge.agreementId = g
                         /\ tokenId # 0
                         /\ assets[tokenId].assetId = pledge.assetId
                         /\ assets[tokenId].pledger = Registry
                         /\ assets[tokenId].originalValue = pledge.originalValue
                         /\ assets[tokenId].pledgedValue = pledge.discountedValue
                  /\ pledgeAgreements'[g].timestamp # pledge.timestamp =>
                         /\ ~Created(g) /\ Created(g)'
                         /\ currentTokenId' = currentTokenId + 1
                         /\ assets'[currentTokenId].assetId = pledgeAgreements'[g].assetId
      ]_vars

\* C18 witness: X1 is registered, so a createPledge of A2 with X1 is rejected by
\* the ledger; A2 has left no trace and is accepted with the unregistered X2
C18_Witness ==
    /\ assetIdToTokenId["X1"] # 0
    /\ ~Created("A2")
    /\ pledgeAgreements["A2"] = NoAgreement
    /\ CreatePledgeRevert(Admin, "A2", "alice", "X1", E18(100000)) = "Asset already pledged"
    /\ CreatePledgeRevert(Admin, "A2", "alice", "X2", E18(100000)) = NoRevert
    /\ steps < MaxSteps

\* C19: a withdrawRevenue of more than platformRevenue is rejected.  A step that
\* withdraws an amount takes exactly that amount off platformRevenue, which held
\* at least as much, and moves exactly that amount of the stable asset from the
\* registry to one recipient, all other balances staying as they are.  In every
\* state platformRevenue plus the total withdrawn is the total accrued by
\* purchases, so the total withdrawn never exceeds the total accrued.
C19_WithdrawRevenue ==
    [][/\ Add(platformRevenue, revenueWithdrawn) = revenueAccrued
       /\ Leq(revenueWithdrawn, revenueAccrued)
       /\ \A n \in WithdrawAmounts :
              Lt(platformRevenue, n) =>
                  \A s \in Senders, to \in AnyAccount :
                      WithdrawRevenueRevert(s, to, n) # NoRevert
       /\ revenueWithdrawn' # revenueWithdrawn =>
              LET amount == Sub(revenueWithdrawn', revenueWithdrawn)
              IN  /\ Lt(revenueWithdrawn, revenueWithdrawn')
                  /\ Leq(amount, platformRevenue)
                  /\ Add(platformRevenue', amount) = platformRevenue
                  /\ Add(usdtBalances'[Registry], amount) = usdtBalances[Registry]
                  /\ \E to \in Accounts \ {Registry} :
                         /\ usdtBalances'[to] = Add(usdtBalances[to], amount)
                         /\ \A a \in Accounts \ {to, Registry} :
                                usdtBalances'[a] = usdtBalances[a]
                  /\ revenueAccrued' = revenueAccrued
      ]_vars

\* C19 witness: of the 150 * 1e6 accrued by a purchase of 1,000 tokens, 150,000
\* base units were withdrawn; a withdrawal of more than what is left is rejected
C19_Witness ==
    /\ revenueAccrued = E6(150)
    /\ revenueWithdrawn = U(150000)
    /\ platformRevenue = U(149850000)
    /\ WithdrawRevenueRevert(Admin, Admin, E6(150)) = "Amount exceeds available revenue"

\* C20: in every step totalClientPayments and totalInvestorPayments stay or
\* grow, and platformRevenue goes down only in a step that is a withdrawal: the
\* amount it loses is added to the total withdrawn and leaves the registry's
\* stable-asset balance, and the other two accumulators stay as they are.
C20_AccumulatorsMonotone ==
    [][/\ Leq(totalClientPayments, totalClientPayments')
       /\ Leq(totalInvestorPayments, totalInvestorPayments')
       /\ Lt(platformRevenue', platformRevenue) =>
              LET amount == Sub(platformRevenue, platformRevenue')
              IN  /\ revenueWithdrawn' = Add(revenueWithdrawn, amount)
                  /\ Add(usdtBalances'[Registry], amount) = usdtBalances[Registry]
                  /\ totalClientPayments' = totalClientPayments
                  /\ totalInvestorPayments' = totalInvestorPayments
                  /\ \E s \in roles[FINANCE_ROLE], to \in Accounts :
                         WithdrawRevenueRevert(s, to, amount) = NoRevert
      ]_vars

\* C20 witness: 1,000 * 1e6 were paid in by an investor and part of the 150 * 1e6
\* of revenue has been withdrawn again
C20_Witness ==
    /\ totalInvestorPayments = E6(1000)
    /\ revenueWithdrawn # U(0)
    /\ Lt(platformRevenue, revenueAccrued)

\* the pledgedValue of asset record i if it is active, otherwise nothing
ActiveValue(i) == IF assets[i].isActive THEN assets[i].pledgedValue ELSE U(0)

\* C21: in every state totalPledgedValue is the sum of pledgedValue over exactly
\* the asset records that are active; a pledgedValue never changes, an asset that
\* was retired is never active again, and the step that retires asset i is the one
\* step that takes its pledgedValue off the accumulator.
C21_PledgedValueOfActiveAssets ==
    [][/\ totalPledgedValue = SumSeq([i \in AssetIndex |-> ActiveValue(i)])
       /\ totalPledgedValue' = SumSeq([i \in 1..Len(assets') |-> ActiveValue(i)'])
       /\ \A i \in AssetIndex :
              /\ assets'[i].pledgedValue = assets[i].pledgedValue
              /\ ~assets[i].isActive => ~assets'[i].isActive
              /\ (assets[i].isActive /\ ~assets'[i].isActive) =>
                     /\ Add(totalPledgedValue', assets[i].pledgedValue)
                            = totalPledgedValue
                     /\ \A j \in AssetIndex \ {i} :
                            assets'[j].isActive = assets[j].isActive
      ]_vars

\* C21 witness: of two assets worth 70,000 * 1e18 each one has been retired, and
\* the accumulator holds the pledgedValue of the other alone
C21_Witness ==
    /\ Len(assets) = 2
    /\ assets[1].pledgedValue = E18(70000) /\ assets[2].pledgedValue = E18(70000)
    /\ \E i \in AssetIndex : ~assets[i].isActive
    /\ \E i \in AssetIndex : assets[i].isActive
    /\ totalPledgedValue = E18(70000)

\* C22: there is at most one asset record per assetId.  The records carry the
\* internal ids 1, 2, ... up to currentTokenId - 1, the reverse lookup of an
\* assetId names the one record that carries it, and a pledgeAsset with a
\* registered assetId is rejected whether that asset is active or retired (as
\* "Asset already pledged" for a role holder while the ledger runs).  A step
\* removes no record, changes the assetId of none and adds at most one, under the
\* next id.
C22_OneRecordPerAssetId ==
    [][/\ currentTokenId = Len(assets) + 1
       /\ \A i \in AssetIndex :
              /\ assets[i].assetId # ""
              /\ assetIdToTokenId[assets[i].assetId] = i
              /\ assets'[i].assetId = assets[i].assetId
       /\ \A a \in AnyAssetId :
              /\ assetIdToTokenId[a] \in 0..Len(assets)
              /\ assetIdToTokenId[a] # 0 =>
                     /\ assets[assetIdToTokenId[a]].assetId = a
                     /\ assetIdToTokenId'[a] = assetIdToTokenId[a]
                     /\ \A s \in Accounts, v \in OriginalValues, p \in Accounts :
                            /\ PledgeAssetRevert(s, a, v, p) # NoRevert
                            /\ (s \in tokenRoles[PLEDGE_MANAGER_ROLE] /\ ~tokenPaused) =>
                                   PledgeAssetRevert(s, a, v, p) = "Asset already pledged"
       /\ Len(assets') \in {Len(assets), Len(assets) + 1}
       /\ currentTokenId' = Len(assets') + 1
      ]_vars

\* C22 witness: X1 was registered under id 1 and retired, X2 under id 2, and a
\* further pledgeAsset of the retired X1 is rejected as already pledged
C22_Witness ==
    /\ assetIdToTokenId["X1"] = 1 /\ assetIdToTokenId["X2"] = 2
    /\ ~assets[1].isActive
    /\ currentTokenId = 3
    /\ PledgeAssetRevert(Admin, "X1", E18(100000), Admin) = "Asset already pledged"
    /\ steps < MaxSteps

\* C23: setDiscountRate rejects 0 and every rate above 100 and accepts an admin's
\* rate in 1..100.  A step that changes the discount rate leaves it in 1..100 and
\* changes nothing else: every asset record, totalPledgedValue, all token and
\* stable-asset balances and every stored agreement stay as they are.
C23_SetDiscountRate ==
    [][/\ discountRate \in 1..100
       /\ \A s \in Senders, r \in AnyRate :
              /\ (r = 0 \/ r > 100) => SetDiscountRateRevert(s, r) # NoRevert
              /\ (r \in 1..100 /\ s \in tokenRoles[DEFAULT_ADMIN_ROLE]) =>
                     SetDiscountRateRevert(s, r) = NoRevert
       /\ discountRate' # discountRate =>
              /\ discountRate' \in 1..100
              /\ UNCHANGED <<assets, assetIdToTokenId, currentTokenId, totalPledgedValue,
                             tokenBalances, tokenTotalSupply, tokensRedeemed>>
              /\ UNCHANGED <<pledgeAgreements, assetInvestors, clientPledges,
                             investorPurchases, totalClientPayments,
                             totalInvestorPayments, platformRevenue>>
              /\ UNCHANGED <<usdtBalances, usdtAllowances, tokenPaused, tokenRoles,
                             spreadPercentage, paused, roles>>
      ]_vars

\* C23 witness: the rate is 50 now, and the asset and the agreement made at rate
\* 70 still stand at 70,000 * 1e18 for 100,000 * 1e18
C23_Witness ==
    /\ discountRate = 50
    /\ \E i \in AssetIndex :
           /\ assets[i].isActive
           /\ assets[i].originalValue = E18(100000)
           /\ assets[i].pledgedValue = E18(70000)
    /\ pledgeAgreements["A1"].discountedValue = E18(70000)
    /\ totalPledgedValue = E18(70000)
    /\ tokenBalances[Registry] = U(70000)

\* C24: a step that pays a client out (totalClientPayments changes) is the
\* payout of one active agreement: exactly its stored clientPayment leaves the
\* registry's stable-asset balance, arrives at its client and is added to
\* totalClientPayments, which the caller's payClient was accepted for; nothing
\* else changes: the agreement stays as it is (ACTIVE), and token balances, asset
\* records, investor records, platform revenue and all other balances are kept.
C24_PayClientEffect ==
    [][totalClientPayments' # totalClientPayments =>
          \E g \in AgreementIds :
              LET pledge == pledgeAgreements[g]
              IN  /\ Created(g)
                  /\ pledge.status = ACTIVE
                  /\ pledgeAgreements'[g].status = ACTIVE
                  /\ \E s \in roles[FINANCE_ROLE] : PayClientRevert(s, g) = NoRevert
                  /\ totalClientPayments' = Add(totalClientPayments, pledge.clientPayment)
                  /\ usdtBalances'[pledge.client]
                         = Add(usdtBalances[pledge.client], pledge.clientPayment)
                  /\ Add(usdtBalances'[Registry], pledge.clientPayment)
                         = usdtBalances[Registry]
                  /\ \A a \in Accounts \ {pledge.client, Registry} :
                         usdtBalances'[a] = usdtBalances[a]
                  /\ UNCHANGED <<assets, assetIdToTokenId, currentTokenId,
                                 totalPledgedValue, tokenBalances, tokenTotalSupply,
                                 tokensRedeemed, discountRate, tokenPaused, tokenRoles>>
                  /\ UNCHANGED <<pledgeAgreements, assetInvestors, clientPledges,
                                 investorPurchases, totalInvestorPayments,
                                 platformRevenue, spreadPercentage, paused, roles,
                                 usdtAllowances>>
      ]_vars

\* C24 witness: the client of an agreement over 3 base units (pledged 2, payment
\* 1) has been paid its 1 base unit by the registry
C24_Witness ==
    \E g \in AgreementIds :
        /\ pledgeAgreements[g].status = ACTIVE
        /\ pledgeAgreements[g].discountedValue = U(2)
        /\ pledgeAgreements[g].clientPayment = U(1)
        /\ totalClientPayments = U(1)
        /\ usdtBalances[pledgeAgreements[g].client] = U(1)
        /\ Add(usdtBalances[Registry], U(1)) = E6(500000)

\* C25 as claimed: an agreement becomes REPAID, and its asset is retired by the
\* registry's redemption, only in a step in which the client pays the registry
\* at least the agreement's clientPayment.
C25_RepaidOnlyByFullRepayment ==
    [][\A g \in AgreementIds :
          LET pledge == pledgeAgreements[g]
              paid == Sub(usdtBalances[pledge.client], usdtBalances'[pledge.client])
          IN  (/\ Created(g)
               /\ pledge.status = ACTIVE
               /\ pledgeAgreements'[g].status = REPAID) =>
                  /\ Leq(usdtBalances'[pledge.client], usdtBalances[pledge.client])
                  /\ Leq(pledge.clientPayment, paid)
                  /\ usdtBalances'[Registry] = Add(usdtBalances[Registry], paid)
      ]_vars

C27_CreatePledgeMintsToRegistry ==
    [][\A g \in AgreementIds :
          (~Created(g) /\ Created(g)') =>
              LET pledge == pledgeAgreements'[g]
                  rec == assets'[currentTokenId]
              IN  /\ IsFloorDivE18(pledge.tokensIssued, pledge.discountedValue)
                  /\ tokenBalances'[Registry]
                         = Add(tokenBalances[Registry], pledge.tokensIssued)
                  /\ tokenTotalSupply' = Add(tokenTotalSupply, pledge.tokensIssued)
                  /\ \A a \in Accounts \ {Registry} : tokenBalances'[a] = tokenBalances[a]
                  /\ pledge.client # Registry
                  /\ assetIdToTokenId[pledge.assetId] = 0
                  /\ assetIdToTokenId'[pledge.assetId] = currentTokenId
                  /\ Len(assets') = Len(assets) + 1
                  /\ rec.assetId = pledge.assetId
                  /\ rec.isActive
                  /\ rec.pledger = Registry
                  /\ rec.pledgedValue = pledge.discountedValue
                  /\ rec.originalValue = pledge.originalValue
                  /\ UNCHANGED <<usdtBalances, usdtAllowances, totalClientPayments,
                                 totalInvestorPayments, platformRevenue>>
      ]_vars

\* C27 witness: the agreement over 100,000 * 1e18 was created at rate 70, and the
\* registry, not the client, holds its 70,000 tokens
C27_Witness ==
    /\ Created("A1")
    /\ pledgeAgreements["A1"].discountedValue = E18(70000)
    /\ pledgeAgreements["A1"].tokensIssued = U(70000)
    /\ tokenBalances[Registry] = U(70000)
    /\ tokenBalances[pledgeAgreements["A1"].client] = U(0)
    /\ tokenTotalSupply = U(70000)
    /\ assets[assetIdToTokenId["X1"]].pledger = Registry

\* C28: a step that redeems n tokens against asset i burns exactly n from one
\* holder and from the supply; if n is less than the amount issued for i the
\* asset stays active and totalPledgedValue is unchanged.  An asset becomes
\* inactive only in a step whose redeemed amount is at least the issued amount.
C28_PartialRelease ==
    [][\A i \in AssetIndex :
          LET n == Sub(tokensRedeemed'[i], tokensRedeemed[i])
          IN  /\ Leq(tokensRedeemed[i], tokensRedeemed'[i])
              /\ tokensRedeemed'[i] # tokensRedeemed[i] =>
                     /\ assets[i].isActive
                     /\ Add(tokenTotalSupply', n) = tokenTotalSupply
                     /\ \E h \in Accounts :
                            /\ Add(tokenBalances'[h], n) = tokenBalances[h]
                            /\ \A a \in Accounts \ {h} :
                                   tokenBalances'[a] = tokenBalances[a]
                     /\ Lt(n, Issued(i)) =>
                            /\ assets'[i].isActive
                            /\ totalPledgedValue' = totalPledgedValue
              /\ (assets[i].isActive /\ ~assets'[i].isActive) => Leq(Issued(i), n)
      ]_vars

\* C28 witness: one token of a 70,000-token asset was redeemed; the asset is
\* still active and its 70,000 * 1e18 are still in the accumulator
C28_Witness ==
    \E i \in AssetIndex :
        /\ tokensRedeemed[i] = U(1)
        /\ Issued(i) = U(70000)
        /\ assets[i].isActive
        /\ totalPledgedValue = E18(70000)
        /\ tokenTotalSupply = U(69999)

IsPrefix(p, q) == Len(p) <= Len(q) /\ SubSeq(q, 1, Len(p)) = p
\* the stable-asset amounts of the purchase records stored under agreement g
PaidUnder(g) == SumSeq([k \in 1..Len(assetInvestors[g]) |-> assetInvestors[g][k].usdtPaid])

\* C29: purchase records are append-only.  In every state totalInvestorPayments
\* is the sum of usdtPaid over all stored records.  In every step each
\* agreement's sequence and each investor's index keeps what it held, in order;
\* at most one record is added, at the end of one agreement's sequence, and then
\* that agreement's id is added at the end of the index of the record's investor
\* and of no other, and totalInvestorPayments grows by the record's usdtPaid.
C29_PurchasesAppendOnly ==
    [][/\ totalInvestorPayments
              = SumOver([g \in AnyAgreementId |-> PaidUnder(g)], AnyAgreementId)
       /\ \A g \in AnyAgreementId :
              /\ IsPrefix(assetInvestors[g], assetInvestors'[g])
              /\ Len(assetInvestors'[g]) <= Len(assetInvestors[g]) + 1
              /\ Len(assetInvestors'[g]) = Len(assetInvestors[g]) + 1 =>
                     LET rec == assetInvestors'[g][Len(assetInvestors'[g])]
                     IN  /\ investorPurchases'[rec.investor]
                                = Append(investorPurchases[rec.investor], g)
                         /\ \A a \in Accounts \ {rec.investor} :
                                investorPurchases'[a] = investorPurchases[a]
                         /\ \A h \in AnyAgreementId \ {g} :
                                assetInvestors'[h] = assetInvestors[h]
                         /\ totalInvestorPayments'
                                = Add(totalInvestorPayments, rec.usdtPaid)
       /\ \A a \in Accounts : IsPrefix(investorPurchases[a], investorPurchases'[a])
       /\ (\A g \in AnyAgreementId : assetInvestors'[g] = assetInvestors[g]) =>
              /\ investorPurchases' = investorPurchases
              /\ totalInvestorPayments' = totalInvestorPayments
      ]_vars

\* C29 witness: two purchases of 1 token each are stored under A1, the buyer's
\* index lists A1 twice, and totalInvestorPayments is their 2 * 1e6
C29_Witness ==
    /\ Len(assetInvestors["A1"]) = 2
    /\ assetInvestors["A1"][1].usdtPaid = E6(1)
    /\ investorPurchases[assetInvestors["A1"][2].investor] = <<"A1", "A1">>
    /\ totalInvestorPayments = E6(2)

\* the answer of each of the three entrypoints to a caller it admits: a holder of
\* FINANCE_ROLE for payClient and repayPledge, anyone for purchaseTokens while the
\* registry is not paused
AnswersOn(g, answer) ==
    /\ \A s \in roles[FINANCE_ROLE] :
           /\ PayClientRevert(s, g) = answer
           /\ \A r \in RepaymentAmounts : RepayPledgeRevert(s, g, r) = answer
    /\ ~paused => \A s \in Senders : \A t \in TokenAmounts : \A p \in PurchaseIds :
                      PurchaseTokensRevert(s, g, t, p) = answer
\* none of the three entrypoints goes through on g, whoever calls
RefusedOn(g) ==
    \A s \in Senders :
        /\ PayClientRevert(s, g) # NoRevert
        /\ \A r \in RepaymentAmounts : RepayPledgeRevert(s, g, r) # NoRevert
        /\ \A t \in TokenAmounts : \A p \in PurchaseIds :
               PurchaseTokensRevert(s, g, t, p) # NoRevert

\* C30: payClient, purchaseTokens and repayPledge on an agreementId that was never
\* created fail with "Pledge not found", and on an agreement that is REPAID with
\* "Pledge not active"; no step changes the record or the purchases of a REPAID
\* agreement, none adds a purchase under an id never created, and a step that
\* raises totalClientPayments pays the clientPayment of an agreement that is
\* created and ACTIVE.
C30_NotFoundNotActive ==
    [][/\ \A g \in AnyAgreementId :
              /\ ~Created(g) =>
                     /\ AnswersOn(g, "Pledge not found")
                     /\ RefusedOn(g)
                     /\ assetInvestors'[g] = assetInvestors[g]
              /\ (Created(g) /\ pledgeAgreements[g].status = REPAID) =>
                     /\ AnswersOn(g, "Pledge not active")
                     /\ RefusedOn(g)
                     /\ pledgeAgreements'[g] = pledgeAgreements[g]
                     /\ assetInvestors'[g] = assetInvestors[g]
       /\ totalClientPayments' # totalClientPayments =>
              \E g \in AgreementIds :
                  /\ Created(g) /\ pledgeAgreements[g].status = ACTIVE
                  /\ totalClientPayments'
                         = Add(totalClientPayments, pledgeAgreements[g].clientPayment)
      ]_vars

\* C30 witness: A1 is REPAID and A2 was never created, the registry is not paused
\* and a step can still be taken: the admin's payClient and purchaseTokens on A1
\* answer "Pledge not active", the admin's repayPledge on A2 "Pledge not found"
C30_Witness ==
    /\ Created("A1") /\ pledgeAgreements["A1"].status = REPAID
    /\ ~Created("A2")
    /\ ~paused /\ steps < MaxSteps
    /\ PayClientRevert(Admin, "A1") = "Pledge not active"
    /\ PurchaseTokensRevert(Admin, "A1", U(1), "P1") = "Pledge not active"
    /\ RepayPledgeRevert(Admin, "A2", U(0)) = "Pledge not found"

\* the clientPayment of agreement g, nothing for an id never created
PayoutDue(g) == IF Created(g) THEN pledgeAgreements[g].clientPayment ELSE U(0)

\* C31: each agreement's client is paid out at most once: what payClient has
\* transferred for an agreement never exceeds its clientPayment, so that
\* totalClientPayments, the sum of all payouts, never exceeds the sum of
\* clientPayment over the agreements created.
C31_ClientPaidAtMostOnce ==
    Leq(totalClientPayments, SumOver([g \in AgreementIds |-> PayoutDue(g)], AgreementIds))

\* the tokens sold under agreement g, over its purchase records
SoldUnder(g) == SumSeq([k \in 1..Len(assetInvestors[g]) |-> assetInvestors[g][k].tokenAmount])

\* C32: per-agreement token scarcity: the tokens sold under an agreement, summed
\* over its purchase records, never exceed the agreement's tokensIssued.
C32_SoldWithinIssued ==
    \A g \in AgreementIds : Created(g) => Leq(SoldUnder(g), pledgeAgreements[g].tokensIssued)

\* C33: per-asset redemption bound: over any sequence of releaseAsset calls the
\* tokens burned against an asset never exceed the tokens issued for it.
C33_RedeemedWithinIssued ==
    \A i \in AssetIndex : Leq(tokensRedeemed[i], Issued(i))

\* the tokens issued for asset i while it is active, nothing once it is retired
ActiveBacking(i) == IF assets[i].isActive THEN Issued(i) ELSE U(0)

\* C34: tokens never outlive their backing: in every state the total supply is
\* at most the sum, over the asset records still active, of the tokens issued for
\* the asset, floor(pledgedValue / 1e18).
C34_SupplyWithinActiveBacking ==
    Leq(tokenTotalSupply, SumSeq([i \in AssetIndex |-> ActiveBacking(i)]))

\* C34 witness: an asset that issued 70,000 tokens has been retired, another one
\* is still active, and the supply left is the 70,000 tokens of the active one
C34_Witness ==
    /\ \E i \in AssetIndex : ~assets[i].isActive /\ Issued(i) = U(70000)
    /\ \E i \in AssetIndex : assets[i].isActive /\ Issued(i) = U(70000)
    /\ tokenTotalSupply = U(70000)

\* C35: registry and ledger stay in step: for every stored agreement, its status
\* is ACTIVE exactly when the asset record of its assetId is active, and REPAID
\* exactly when that record is inactive.
C35_RegistryAndLedgerInStep ==
    \A g \in AgreementIds :
        Created(g) =>
            LET pledge == pledgeAgreements[g]
                asset == assets[assetIdToTokenId[pledge.assetId]]
            IN  /\ pledge.status = ACTIVE <=> asset.isActive
                /\ pledge.status = REPAID <=> ~asset.isActive

\* C36: accrued revenue is always backed: in every state the registry's balance
\* of the stable asset is at least platformRevenue, and payClient cannot spend
\* what is booked as revenue: whenever payClient is accepted for an agreement, the
\* registry's balance covers its clientPayment on top of platformRevenue.
C36_RevenueBacked ==
    /\ Leq(platformRevenue, usdtBalances[Registry])
    /\ \A g \in AgreementIds :
           (\E s \in Senders : PayClientRevert(s, g) = NoRevert) =>
               Leq(Add(platformRevenue, pledgeAgreements[g].clientPayment),
                   usdtBalances[Registry])

\* C37: emergency pause freezes money movement: a step taken while the registry
\* is paused neither lowers the registry's balance of the stable asset nor changes
\* the status of any agreement.
C37_PauseFreezesMoney ==
    [][paused =>
           /\ Leq(usdtBalances[Registry], usdtBalances'[Registry])
           /\ \A g \in AgreementIds :
                  pledgeAgreements'[g].status = pledgeAgreements[g].status
      ]_vars

\* the places (client, position) at which agreement id g stands in the pledge index
IndexedAt(g) == {ck \in Accounts \X (1..MaxSteps) : ck[2] <= Len(clientPledges[ck[1]]) /\ clientPledges[ck[1]][ck[2]] = g}

\* C38: a stored agreement is immutable except for its status.  In every step an
\* agreement that exists keeps every field but status, and the pledge index keeps
\* what it held; the step that creates agreement g stores g as its agreementId and
\* adds g to the index of the client stored in it; and in every state a created
\* id stands at exactly one place of the index, under the agreement's client,
\* while an id never created has no record.
C38_AgreementImmutable ==
    [][\A g \in AgreementIds :
          LET before == pledgeAgreements[g]
              after == pledgeAgreements'[g]
          IN  /\ Created(g) =>
                     /\ before.agreementId = g
                     /\ Cardinality(IndexedAt(g)) = 1
                     /\ \A ck \in IndexedAt(g) : ck[1] = before.client
                     /\ [after EXCEPT !.status = before.status] = before
                     /\ IndexedAt(g)' = IndexedAt(g)
              /\ ~Created(g) => before = NoAgreement /\ IndexedAt(g) = {}
              /\ (~Created(g) /\ Created(g)') =>
                     /\ after.agreementId = g
                     /\ clientPledges'[after.client]
                            = Append(clientPledges[after.client], g)
                     /\ \A c \in Accounts \ {after.client} :
                            clientPledges'[c] = clientPledges[c]
      ]_vars

\* C38 witness: agreement A1, created for alice over 100,000 * 1e18, has been
\* repaid: its status is REPAID, its other fields are those stored at creation
\* and A1 stands once in alice's index, next to A2
C38_Witness ==
    /\ pledgeAgreements["A1"].status = REPAID
    /\ pledgeAgreements["A1"].agreementId = "A1"
    /\ pledgeAgreements["A1"].originalValue = E18(100000)
    /\ pledgeAgreements["A1"].clientPayment = E18(59500)
    /\ Cardinality(IndexedAt("A1")) = 1
    /\ Created("A2")

====
